---------------------------- MODULE Spec2Model ----------------------------
(***************************************************************************)
(* nutrition-langchain: the Conversation Intent Router                     *)
(* (agents/coordinator.py, agents/base.py, models.py, agents/workflow.py), *)
(* the ingredient resolver (utils.py) and the creation of catalog rows     *)
(* (agents/analyzer.py).                                                   *)
(*                                                                         *)
(* Python strings are sequences of one-character strings, so that strip,   *)
(* lower, find, split and the regular expressions act on characters as in  *)
(* the source.  Optional values are None == << >> and Some(v) == << v >>.  *)
(***************************************************************************)
EXTENDS Integers, Sequences, FiniteSets, TLC

None == << >>
Some(v) == << v >>

\* a local variable: body applied to the value of e, which is computed once
With(e, body(_)) == CHOOSE r \in {body(x) : x \in {e}} : TRUE

(***************************************************************************)
(* Python string primitives                                                *)
(***************************************************************************)
UpperAlpha == <<"A","B","C","D","E","F","G","H","I","J","K","L","M",
                "N","O","P","Q","R","S","T","U","V","W","X","Y","Z">>
LowerAlpha == <<"a","b","c","d","e","f","g","h","i","j","k","l","m",
                "n","o","p","q","r","s","t","u","v","w","x","y","z">>
DigitChars == <<"0","1","2","3","4","5","6","7","8","9">>

Range(f) == {f[i] : i \in DOMAIN f}

IsUpper(c) == c \in Range(UpperAlpha)
IsAlphaChar(c) == c \in Range(UpperAlpha) \cup Range(LowerAlpha)
IsDigit(c) == c \in Range(DigitChars)
IsAlnumChar(c) == IsAlphaChar(c) \/ IsDigit(c)
IsWordChar(c) == IsAlnumChar(c) \/ c = "_"
IsSpace(c) == c \in {" ", "\t", "\n"}

DigitVal(c) == (CHOOSE i \in 1..10 : DigitChars[i] = c) - 1

\* the letters E with acute accent (U+00C9, U+00E9) stand for the cased
\* letters outside ASCII
E_ACUTE_UPPER == "U+00C9"
E_ACUTE_LOWER == "U+00E9"

\* SQLite's built-in lower() folds the ASCII letters only
SqliteLowerChar(c) == IF IsUpper(c) THEN LowerAlpha[CHOOSE i \in 1..26 : UpperAlpha[i] = c] ELSE c

sqlite_lower(s) == [i \in 1..Len(s) |-> SqliteLowerChar(s[i])]

LowerChar(c) == IF c = E_ACUTE_UPPER THEN E_ACUTE_LOWER ELSE SqliteLowerChar(c)

\* str.lower()
lower(s) == [i \in 1..Len(s) |-> LowerChar(s[i])]

\* s[a:b] with 0-based, end-exclusive positions 0 <= a, b <= len(s)
Slice(s, a, b) == SubSeq(s, a + 1, b)

\* str.strip()
strip(s) ==
    IF \A i \in 1..Len(s) : IsSpace(s[i]) THEN << >>
    ELSE LET a == CHOOSE i \in 1..Len(s) : ~IsSpace(s[i]) /\ \A j \in 1..(i-1) : IsSpace(s[j])
             b == CHOOSE i \in 1..Len(s) : ~IsSpace(s[i]) /\ \A j \in (i+1)..Len(s) : IsSpace(s[j])
         IN SubSeq(s, a, b)

\* whether k occurs in s at 0-based position p
OccursAt(s, k, p) == p >= 0 /\ p + Len(k) <= Len(s) /\ SubSeq(s, p + 1, p + Len(k)) = k

\* str.find(k): lowest 0-based position of k in s, -1 when absent
find(s, k) ==
    IF \E p \in 0..Len(s) : OccursAt(s, k, p)
    THEN CHOOSE p \in 0..Len(s) : OccursAt(s, k, p) /\ \A q \in 0..(p-1) : ~OccursAt(s, k, q)
    ELSE -1

\* k in s
contains(s, k) == find(s, k) # -1

\* str.split(): the maximal runs of non-whitespace characters, in order
RECURSIVE split(_)
split(s) ==
    IF s = << >> THEN << >>
    ELSE IF IsSpace(s[1]) THEN split(Tail(s))
    ELSE LET n == IF \E i \in 1..Len(s) : IsSpace(s[i])
                  THEN (CHOOSE i \in 1..Len(s) : IsSpace(s[i]) /\ \A j \in 1..(i-1) : ~IsSpace(s[j])) - 1
                  ELSE Len(s)
         IN << SubSeq(s, 1, n) >> \o split(SubSeq(s, n + 1, Len(s)))

\* str.isalpha()
isalpha(t) == t # << >> /\ \A i \in 1..Len(t) : IsAlphaChar(t[i]) \/ t[i] \in {E_ACUTE_UPPER, E_ACUTE_LOWER}

\* " ".join(toks)
RECURSIVE join(_)
join(toks) ==
    IF toks = << >> THEN << >>
    ELSE IF Len(toks) = 1 THEN toks[1]
    ELSE toks[1] \o <<" ">> \o join(Tail(toks))

\* decimal digits of a natural number
RECURSIVE NatStr(_)
NatStr(n) == IF n < 10 THEN << DigitChars[n + 1] >> ELSE NatStr(n \div 10) \o << DigitChars[(n % 10) + 1] >>

\* value of a run of digits
RECURSIVE DigitsVal(_)
DigitsVal(d) == IF d = << >> THEN 0 ELSE 10 * DigitsVal(SubSeq(d, 1, Len(d) - 1)) + DigitVal(d[Len(d)])


(***************************************************************************)
(* Floats.  A gram amount is held in thousandths (the texts of the model   *)
(* carry at most three fractional digits, so float() is exact here).       *)
(***************************************************************************)

\* float(group): the value of "ddd" or "ddd.fff" in thousandths
ParseFloat(g) ==
    LET dot == find(g, <<".">>)
        ip == IF dot = -1 THEN g ELSE Slice(g, 0, dot)
        fp == IF dot = -1 THEN << >> ELSE Slice(g, dot + 1, Len(g))
        f3 == SubSeq(fp \o <<"0","0","0">>, 1, 3)
    IN DigitsVal(ip) * 1000 + DigitsVal(f3)

\* str(float) as an f-string renders it: "150.0", "1.5", "0.25"
FloatRepr(m) ==
    LET w == m \div 1000
        r == m % 1000
        fr == IF r = 0 THEN <<"0">>
              ELSE IF r % 100 = 0 THEN NatStr(r \div 100)
              ELSE IF r % 10 = 0 THEN (IF r < 100 THEN <<"0">> ELSE << >>) \o NatStr(r \div 10)
              ELSE (IF r < 10 THEN <<"0","0">> ELSE IF r < 100 THEN <<"0">> ELSE << >>) \o NatStr(r)
    IN NatStr(w) \o <<".">> \o fr

(***************************************************************************)
(* The grams value of a parsed item: a JSON value as json.loads returns it *)
(* (a number in thousandths, a string, null; a missing key reads as null)  *)
(* and the float AnalyzerAgent.process_ingredients makes of it.  A float   *)
(* is a finite value in thousandths or NaN.                                *)
(***************************************************************************)
JNull == <<"null">>
JNumber(v) == <<"number", v>>
JString(s) == <<"string", s>>

Finite(v) == [nan |-> FALSE, v |-> v]
NaN == [nan |-> TRUE, v |-> 0]

\* x <= y and x > y on floats: every comparison with NaN is false
FloatLe(x, y) == ~x.nan /\ ~y.nan /\ x.v <= y.v
FloatGt(x, y) == ~x.nan /\ ~y.nan /\ x.v > y.v

\* digits with at most one point and at least one digit
IsDecimal(s) ==
    /\ \A i \in 1..Len(s) : IsDigit(s[i]) \/ s[i] = "."
    /\ Cardinality({i \in 1..Len(s) : s[i] = "."}) <= 1
    /\ \E i \in 1..Len(s) : IsDigit(s[i])

\* float(text) for the texts of the model: blanks are stripped, a sign is
\* read, "nan" in any letter case is NaN, a decimal numeral is its value,
\* anything else raises ValueError (None)
FloatOfText(text) ==
    LET t == strip(text)
        signed == t # << >> /\ t[1] \in {"-", "+"}
        body == IF signed THEN Tail(t) ELSE t
    IN  IF lower(body) = <<"n","a","n">> THEN Some(NaN)
        ELSE IF IsDecimal(body)
        THEN Some(Finite(IF signed /\ t[1] = "-" THEN 0 - ParseFloat(body) ELSE ParseFloat(body)))
        ELSE None

\* a falsy value: None, 0, the empty string
Falsy(j) == j = JNull \/ j = JNumber(0) \/ j = JString(<< >>)

\* grams <= 0 (line 186)
GramsRejected(grams) == FloatLe(grams, Finite(0))

\* lines 182-185: float(it.get("grams") or 0), 0.0 when float() raises
GramsOf(j) ==
    IF Falsy(j) THEN Finite(0)
    ELSE IF j[1] = "number" THEN Finite(j[2])
    ELSE IF FloatOfText(j[2]) = None THEN Finite(0)
    ELSE FloatOfText(j[2])[1]

(***************************************************************************)
(* Heuristic extractors of CoordinatorAgent                                *)
(***************************************************************************)
NEGATIVE_REPLIES ==
    { <<"n","o">>, <<"n","o","p","e">>, <<"n","a","h">>,
      <<"n","o","t","h","i","n","g"," ","e","l","s","e">>,
      <<"j","u","s","t"," ","t","h","a","t">>,
      <<"t","h","a","t","'","s"," ","i","t">>,
      <<"o","n","l","y">> }

\* a reply that holds one of the phrases anywhere
_is_negative_reply_contains(text) == \E p \in NEGATIVE_REPLIES : contains(lower(strip(text)), p)

_is_negative_reply(text) == lower(strip(text)) \in NEGATIVE_REPLIES

\* number of characters from 0-based position p on that satisfy the class
RECURSIVE DigitRun(_, _)
DigitRun(s, p) == IF p < Len(s) /\ IsDigit(s[p + 1]) THEN 1 + DigitRun(s, p + 1) ELSE 0

RECURSIVE SpaceRun(_, _)
SpaceRun(s, p) == IF p < Len(s) /\ IsSpace(s[p + 1]) THEN 1 + SpaceRun(s, p + 1) ELSE 0

\* \b at 0-based position p
WordBoundary(s, p) ==
    LET before == p >= 1 /\ p <= Len(s) /\ IsWordChar(s[p])
        after == p < Len(s) /\ IsWordChar(s[p + 1])
    IN before # after

\* \s*(g|grams)?\b from position p
UnitTail(s, p) ==
    \E w \in 0..SpaceRun(s, p) :
        \E u \in { <<"g">>, <<"g","r","a","m","s">>, << >> } :
            OccursAt(s, u, p + w) /\ WordBoundary(s, p + w + Len(u))

\* end position of group 1 of (\d+(?:\.\d+)?)\s*(g|grams)?\b matched from
\* position i, -1 when the pattern does not match there.  A shorter run of
\* digits than the greedy one is followed by a digit, where neither the
\* unit nor \b can match, so only the greedy runs are tried.
GramsGroupEnd(s, i) ==
    LET d == DigitRun(s, i)
        f == IF OccursAt(s, <<".">>, i + d) THEN DigitRun(s, i + d + 1) ELSE 0
    IN IF d = 0 THEN -1
       ELSE IF f > 0 /\ UnitTail(s, i + d + 1 + f) THEN i + d + 1 + f
       ELSE IF UnitTail(s, i + d) THEN i + d
       ELSE -1

_extract_grams(text) ==
    IF text = << >> THEN None
    ELSE LET s == lower(strip(text))
         IN IF \E i \in 0..Len(s) : GramsGroupEnd(s, i) # -1
            THEN LET i == CHOOSE i \in 0..Len(s) :
                              GramsGroupEnd(s, i) # -1 /\ \A j \in 0..(i-1) : GramsGroupEnd(s, j) = -1
                 IN Some(ParseFloat(Slice(s, i, GramsGroupEnd(s, i))))
            ELSE None

MEAL_VERBS == << <<"i"," ","h","a","d"," ">>, <<"i"," ","a","t","e"," ">>,
                 <<"h","a","d"," ">>, <<"a","t","e"," ">> >>

ITEM_CUTS == << <<" ","w","i","t","h"," ">>, <<" ","a","n","d"," ">>, <<",">>, <<";">>,
                <<" ","f","o","r"," ">>, <<"."," ">> >>

\* min((s.find(k) for k in keys if k in s), default=-1)
MinVerbPos(s) ==
    LET ps == {find(s, MEAL_VERBS[i]) : i \in {j \in 1..Len(MEAL_VERBS) : contains(s, MEAL_VERBS[j])}}
    IN IF ps = {} THEN -1 ELSE CHOOSE p \in ps : \A q \in ps : p <= q

\* next(k for k in keys if s.find(k) == pos)
VerbAt(s, pos) ==
    MEAL_VERBS[CHOOSE i \in 1..Len(MEAL_VERBS) :
                   find(s, MEAL_VERBS[i]) = pos /\ \A j \in 1..(i-1) : find(s, MEAL_VERBS[j]) # pos]

\* for cut in [...]: idx = lowers.find(cut); if idx != -1: frag = frag[:idx]
RECURSIVE TrimAtCuts(_, _)
TrimAtCuts(frag, n) ==
    IF n > Len(ITEM_CUTS) THEN frag
    ELSE LET idx == find(lower(frag), ITEM_CUTS[n])
         IN TrimAtCuts(IF idx # -1 THEN Slice(frag, 0, idx) ELSE frag, n + 1)

SelectAlpha(toks) == SelectSeq(toks, isalpha)

_extract_item_from_text(text) ==
    IF text = << >> THEN None
    ELSE LET raw == strip(text)
             s == lower(raw)
             pos == MinVerbPos(s)
             right == Slice(raw, find(raw, <<",">>) + 1, Len(raw))
             rpos == MinVerbPos(lower(right))
             frag == IF pos # -1 THEN Slice(raw, pos + Len(VerbAt(s, pos)), Len(raw))
                     ELSE IF contains(s, <<",">>)
                          THEN IF rpos # -1
                               THEN Slice(right, rpos + Len(VerbAt(lower(right), rpos)), Len(right))
                               ELSE right
                          ELSE raw
             toks == SelectAlpha(split(strip(TrimAtCuts(frag, 1))))
         IN IF toks = << >> THEN None
            ELSE Some(join(SubSeq(toks, 1, IF Len(toks) < 4 THEN Len(toks) ELSE 4)))

GREETINGS == { <<"h","i">>, <<"h","e","l","l","o">>, <<"h","e","y">>, <<"y","o">>, <<"s","u","p">> }

MEAL_MENTION_KEYS == << <<"i"," ","h","a","d"," ">>, <<"h","a","d"," ">>, <<"i"," ","a","t","e"," ">>, <<"a","t","e"," ">>, <<"b","r","e","a","k","f","a","s","t">>, <<"l","u","n","c","h">>, <<"d","i","n","n","e","r">> >>

MEAL_CUES == << <<"b","r","e","a","k","f","a","s","t">>, <<"l","u","n","c","h">>, <<"d","i","n","n","e","r">>, <<"a","t","e">>, <<"h","a","d">>, <<"i"," ","h","a","d">>, <<"i"," ","a","t","e">> >>

RECIPE_CUES == << <<"r","e","c","i","p","e">>, <<"c","o","o","k">>, <<"m","a","k","e">> >>

COACHING_CUES == << <<"a","d","v","i","c","e">>, <<"h","e","a","l","t","h","y">>, <<"d","i","e","t">> >>

\* any(k in text for k in keys)
AnyIn(keys, text) == \E i \in 1..Len(keys) : contains(text, keys[i])

(***************************************************************************)
(* Dicts are functions on their keys; d.get(k) is an optional value.       *)
(***************************************************************************)
EmptyDict == << >>

DictGet(d, k) == IF k \in DOMAIN d THEN Some(d[k]) ELSE None

\* truthiness of an optional string or dict
Truthy(o) == o # None /\ o[1] # << >>

\* a or b
Or(a, b) == IF Truthy(a) THEN a ELSE b

(***************************************************************************)
(* The chat_history table (models.py) and the two BaseAgent accessors.     *)
(* A row's timestamp is the column default, datetime.now() evaluated once  *)
(* when the class body runs: every row written by one process carries the  *)
(* import time `boot`.  ORDER BY timestamp DESC leaves the order of equal  *)
(* timestamps to the database engine; dbTies is the order the deployed     *)
(* engine produces for them.                                               *)
(***************************************************************************)
VARIABLES chat_history, boot, dbTies, storeFaults

TIE_ORDERS == {"rowid_asc", "rowid_desc"}

\* json.dumps / json.loads of a metadata dict
json_dumps(d) == [json |-> d]

json_loads(t) == t.json

\* ChatHistory(...) as save_message builds it; id is the autoincrement key
ChatHistoryRow(tbl, user_id, role, content, metadata, category) ==
    [ id |-> Len(tbl) + 1,
      user_id |-> user_id,
      role |-> role,
      content |-> content,
      timestamp |-> boot,
      message_metadata |-> IF Truthy(metadata) THEN Some(json_dumps(metadata[1])) ELSE None,
      category |-> category ]

\* ChatHistory.save_message: add and commit
save_message(tbl, user_id, role, content, metadata, category) ==
    Append(tbl, ChatHistoryRow(tbl, user_id, role, content, metadata, category))

\* ORDER BY timestamp DESC, equal timestamps in the engine's order
OrderedBefore(r1, r2) ==
    \/ r1.timestamp > r2.timestamp
    \/ /\ r1.timestamp = r2.timestamp
       /\ IF dbTies = "rowid_asc" THEN r1.id < r2.id ELSE r1.id > r2.id

RECURSIVE OrderRows(_)
OrderRows(rows) ==
    IF rows = {} THEN << >>
    ELSE With(CHOOSE r \in rows : \A o \in rows \ {r} : OrderedBefore(r, o), LAMBDA first :
              << first >> \o OrderRows(rows \ {first}))

\* ChatHistory.get_user_history: filter_by(user_id).order_by(timestamp.desc()).limit(limit).all()
get_user_history(tbl, user_id, limit) ==
    With(OrderRows({tbl[i] : i \in {j \in 1..Len(tbl) : tbl[j].user_id = user_id}}), LAMBDA ordered :
        SubSeq(ordered, 1, IF Len(ordered) < limit THEN Len(ordered) ELSE limit))

reversed(seq) == With(seq, LAMBDA s : [i \in 1..Len(s) |-> s[Len(s) + 1 - i]])

ChatMessage(role, content, metadata, category, name) ==
    [ role |-> role, content |-> content, metadata |-> metadata, category |-> category, name |-> name ]

\* the ChatMessage that get_chat_history builds from a row
MessageOfRow(record) ==
    LET metadata == IF record.message_metadata # None THEN Some(json_loads(record.message_metadata[1])) ELSE None
        name == IF Truthy(metadata) THEN DictGet(metadata[1], "name") ELSE None
    IN ChatMessage(record.role, record.content, metadata, record.category, name)

HISTORY_LIMIT == 50

\* BaseAgent.get_chat_history; ok = FALSE is a query that raises
get_chat_history(tbl, user_id, limit, ok) ==
    IF ok
    THEN With(reversed(get_user_history(tbl, user_id, limit)), LAMBDA records :
              [i \in 1..Len(records) |-> MessageOfRow(records[i])])
    ELSE << >>

\* save_chat_message over a store that never raises
save_chat_message_always(tbl, user_id, message, ok) ==
    LET base == IF Truthy(message.metadata) THEN message.metadata[1] ELSE EmptyDict
        metadata == IF message.name # None THEN ("name" :> message.name[1]) @@ base ELSE base
    IN save_message(tbl, user_id, message.role, message.content,
                    IF metadata # EmptyDict THEN Some(metadata) ELSE None, message.category)

\* BaseAgent.save_chat_message; ok = FALSE is a store that raises, which is swallowed
save_chat_message(tbl, user_id, message, ok) ==
    LET base == IF Truthy(message.metadata) THEN message.metadata[1] ELSE EmptyDict
        metadata == IF message.name # None THEN ("name" :> message.name[1]) @@ base ELSE base
    IN IF ok
       THEN save_message(tbl, user_id, message.role, message.content,
                         IF metadata # EmptyDict THEN Some(metadata) ELSE None, message.category)
       ELSE tbl

(***************************************************************************)
(* CoordinatorAgent (agents/coordinator.py).  HTML replies are sequences   *)
(* whose fixed markup is one opaque element and whose interpolated item or *)
(* canonical request is spliced in character by character.                 *)
(***************************************************************************)
CATEGORIES == <<"analyze_meal", "coaching", "web_search", "recipe_generation", "conversation", "clarification">>

COORDINATOR_TAG == "<p>[COORDINATOR]</p>"

ImageHtml == << COORDINATOR_TAG, "<p>I see you've uploaded an image. Let me analyze the food items in it for you...</p>" >>

ClassifierHtml == << COORDINATOR_TAG, "<p>{response}</p>{follow_up}" >>

ClassifierErrorHtml == << "<p>[COORDINATOR ERROR]</p><p>I'm here to help with your nutrition needs. Could you tell me more about what you'd like to do?</p>" >>

AskGramsHtml(item) ==
    << COORDINATOR_TAG, "<p>Got it - just " >> \o item \o
    << ". Approximately how much did you have in grams?</p>",
       "<p><em>For example: 150 g, 1 block (~300 g), or a rough estimate.</em></p>" >>

AckHtml(canonical) ==
    << COORDINATOR_TAG, "<p>Thanks! Logging " >> \o canonical \o << ". I'll analyze it for you now.</p>" >>

\* the canonical request with the amount written as a whole number
Canonical_whole(item, grams) == item \o <<" ">> \o NatStr(grams \div 1000) \o <<" ", "g">>

\* f"{item} {grams} g"
Canonical(item, grams) == item \o <<" ">> \o FloatRepr(grams) \o <<" ", "g">>

\* What the classifier collaborator does with one call: the request raises
\* or times out, the reply is not JSON, the JSON is not an object, or it is
\* an object whose "category" is absent or any label.
CLASSIFIER_LABELS == Range(CATEGORIES) \cup {"dessert"}

ClassifierOutcomes ==
    {[kind |-> k, category |-> None] : k \in {"raise", "timeout", "malformed", "not_object"}}
    \cup {[kind |-> "object", category |-> c] : c \in {None} \cup {Some(l) : l \in CLASSIFIER_LABELS}}

\* classify_and_respond without the validation of the label
classify_and_respond_unvalidated(outcome, has_image) ==
    IF has_image THEN << "analyze_meal", ImageHtml >>
    ELSE IF outcome.kind # "object" THEN << "conversation", ClassifierErrorHtml >>
    ELSE << IF outcome.category = None THEN "conversation" ELSE outcome.category[1], ClassifierHtml >>

\* CoordinatorAgent.classify_and_respond: <<category, response_html>>
classify_and_respond(outcome, has_image) ==
    IF has_image THEN << "analyze_meal", ImageHtml >>
    ELSE IF outcome.kind # "object" THEN << "conversation", ClassifierErrorHtml >>
    ELSE LET category == IF outcome.category = None THEN "conversation" ELSE outcome.category[1]
         IN << IF category \notin Range(CATEGORIES) THEN "conversation" ELSE category, ClassifierHtml >>

\* CoordinatorAgent._last_clarification_about: <<about, prior_user_text, assistant_metadata>>
RECURSIVE NearestUserBefore(_, _)
NearestUserBefore(hist, j) ==
    IF j < 1 THEN None
    ELSE IF hist[j].role = "user" THEN Some(hist[j].content)
    ELSE NearestUserBefore(hist, j - 1)

\* the scan that looks at the latest assistant message only
RECURSIVE LastClarificationFrom_immediate(_, _)
LastClarificationFrom_immediate(hist, i) ==
    IF i < 1 THEN << None, None, None >>
    ELSE LET msg == hist[i]
         IN IF msg.role = "assistant"
            THEN IF msg.category = Some("clarification")
                 THEN << IF Truthy(msg.metadata) THEN DictGet(msg.metadata[1], "clarifying_about") ELSE None,
                         NearestUserBefore(hist, i - 1),
                         IF Truthy(msg.metadata) THEN msg.metadata ELSE Some(EmptyDict) >>
                 ELSE << None, None, None >>
            ELSE LastClarificationFrom_immediate(hist, i - 1)

RECURSIVE LastClarificationFrom(_, _)
LastClarificationFrom(hist, i) ==
    IF i < 1 THEN << None, None, None >>
    ELSE LET msg == hist[i]
         IN IF msg.role = "assistant" /\ msg.category = Some("clarification")
            THEN << IF Truthy(msg.metadata) THEN DictGet(msg.metadata[1], "clarifying_about") ELSE None,
                    NearestUserBefore(hist, i - 1),
                    IF Truthy(msg.metadata) THEN msg.metadata ELSE Some(EmptyDict) >>
            ELSE LastClarificationFrom(hist, i - 1)

_last_clarification_about(hist) == LastClarificationFrom(hist, Len(hist))

\* CoordinatorAgent._find_recent_meal_item
RECURSIVE RecentMealItemFrom(_, _)
RecentMealItemFrom(hist, i) ==
    IF i < 1 THEN None
    ELSE LET msg == hist[i]
             text == lower(msg.content)
         IN IF msg.role # "user" THEN RecentMealItemFrom(hist, i - 1)
            ELSE IF strip(text) \in GREETINGS THEN RecentMealItemFrom(hist, i - 1)
            ELSE IF AnyIn(MEAL_MENTION_KEYS, text) /\ Truthy(_extract_item_from_text(msg.content))
                 THEN _extract_item_from_text(msg.content)
                 ELSE RecentMealItemFrom(hist, i - 1)

_find_recent_meal_item(hist) == RecentMealItemFrom(hist, Len(hist))

\* the metadata with the recipe cues tested before the meal cues
CoordinatorMetadata_recipe_first(category, user_input) ==
    LET base == ("type" :> "coordinator") @@ ("category" :> category)
        lower_in == lower(user_input)
        item_guess == _extract_item_from_text(user_input)
    IN IF category # "clarification" THEN base
       ELSE IF AnyIn(RECIPE_CUES, lower_in) THEN ("clarifying_about" :> "recipe") @@ base
       ELSE IF AnyIn(MEAL_CUES, lower_in)
            THEN IF Truthy(item_guess)
                 THEN ("clarifying_item" :> item_guess[1]) @@ ("clarifying_about" :> "meal_logging") @@ base
                 ELSE ("clarifying_about" :> "meal_logging") @@ base
       ELSE IF AnyIn(COACHING_CUES, lower_in) THEN ("clarifying_about" :> "coaching") @@ base
       ELSE base

\* the metadata of the coordinator's own reply (process, lines 368-390)
CoordinatorMetadata(category, user_input) ==
    LET base == ("type" :> "coordinator") @@ ("category" :> category)
        lower_in == lower(user_input)
        item_guess == _extract_item_from_text(user_input)
    IN IF category # "clarification" THEN base
       ELSE IF AnyIn(MEAL_CUES, lower_in)
            THEN IF Truthy(item_guess)
                 THEN ("clarifying_item" :> item_guess[1]) @@ ("clarifying_about" :> "meal_logging") @@ base
                 ELSE ("clarifying_about" :> "meal_logging") @@ base
       ELSE IF AnyIn(RECIPE_CUES, lower_in) THEN ("clarifying_about" :> "recipe") @@ base
       ELSE IF AnyIn(COACHING_CUES, lower_in) THEN ("clarifying_about" :> "coaching") @@ base
       ELSE base

ClarificationMetadata(item) ==
    ("type" :> "coordinator") @@ ("category" :> "clarification")
    @@ ("clarifying_about" :> "meal_logging") @@ ("clarifying_item" :> item)

UserMessage(user_input, category) ==
    ChatMessage("user", user_input, Some("category" :> category), Some(category), None)

\* the transitions without the quantity rule of an open clarification
ProcessBranch_no_open_quantity(user_input, hist) ==
    LET about == _last_clarification_about(hist)[1]
        grams == _extract_grams(user_input)
        positive == grams # None /\ grams[1] > 0
    IN IF about = Some("meal_logging") /\ _is_negative_reply(user_input) THEN "open_negative"
       ELSE IF about = None /\ _is_negative_reply(user_input) /\ Truthy(_find_recent_meal_item(hist))
            THEN "idle_negative"
       ELSE IF about = None /\ positive /\ Truthy(_find_recent_meal_item(hist)) THEN "idle_quantity"
       ELSE "classify"

\* the transitions without the two rules of the idle state
ProcessBranch_open_only(user_input, hist) ==
    LET about == _last_clarification_about(hist)[1]
        grams == _extract_grams(user_input)
        positive == grams # None /\ grams[1] > 0
    IN IF about = Some("meal_logging") /\ _is_negative_reply(user_input) THEN "open_negative"
       ELSE IF about = Some("meal_logging") /\ positive THEN "open_quantity"
       ELSE "classify"

\* which transition CoordinatorAgent.process takes, in the order of its tests
ProcessBranch(user_input, hist) ==
    LET about == _last_clarification_about(hist)[1]
        grams == _extract_grams(user_input)
        positive == grams # None /\ grams[1] > 0
    IN IF about = Some("meal_logging") /\ _is_negative_reply(user_input) THEN "open_negative"
       ELSE IF about = Some("meal_logging") /\ positive THEN "open_quantity"
       ELSE IF about = None /\ _is_negative_reply(user_input) /\ Truthy(_find_recent_meal_item(hist))
            THEN "idle_negative"
       ELSE IF about = None /\ positive /\ Truthy(_find_recent_meal_item(hist)) THEN "idle_quantity"
       ELSE "classify"

DEFAULT_ITEM_NEGATIVE == <<"t","h","a","t">>

DEFAULT_ITEM_QUANTITY == <<"i","t","e","m">>

\* what CoordinatorAgent.process decides from the message and the history it
\* read: the transition, the anchor item, the category, the reply and the
\* user input handed on
ProcessDecision(st, hist, outcome) ==
    With(ProcessBranch(st.user_input, hist), LAMBDA branch :
    With(IF branch = "classify" THEN << >>
         ELSE LET last_meta == _last_clarification_about(hist)[3]
                  last_item == IF Truthy(last_meta) THEN DictGet(last_meta[1], "clarifying_item") ELSE None
                  recent_item == _find_recent_meal_item(hist)
              IN IF branch = "open_negative" THEN Or(Or(last_item, recent_item), Some(DEFAULT_ITEM_NEGATIVE))[1]
                 ELSE IF branch = "open_quantity" THEN Or(Or(last_item, recent_item), Some(DEFAULT_ITEM_QUANTITY))[1]
                 ELSE recent_item[1], LAMBDA item :
    With(IF branch \in {"open_quantity", "idle_quantity"}
         THEN Canonical(item, _extract_grams(st.user_input)[1]) ELSE st.user_input, LAMBDA canonical :
    With(classify_and_respond(outcome, Truthy(st.image_data)), LAMBDA classified :
        [ branch |-> branch,
          item |-> item,
          user_input |-> canonical,
          category |-> IF branch \in {"open_negative", "idle_negative"} THEN "clarification"
                       ELSE IF branch \in {"open_quantity", "idle_quantity"} THEN "analyze_meal"
                       ELSE classified[1],
          html |-> IF branch \in {"open_negative", "idle_negative"} THEN AskGramsHtml(item)
                   ELSE IF branch \in {"open_quantity", "idle_quantity"} THEN AckHtml(canonical)
                   ELSE classified[2] ]))))

\* the reply of a directly resolved category is not stored
ProcessMessages_user_only(st, d) == << UserMessage(st.user_input, d.category) >>

\* the messages CoordinatorAgent.process hands to save_chat_message
ProcessMessages(st, d) ==
    IF d.category \in {"conversation", "clarification"}
    THEN << UserMessage(st.user_input, d.category),
            ChatMessage("assistant", d.html,
                        Some(IF d.branch = "classify" THEN CoordinatorMetadata(d.category, st.user_input)
                             ELSE ClarificationMetadata(d.item)),
                        Some(d.category), None) >>
    ELSE << UserMessage(st.user_input, d.category) >>

\* CoordinatorAgent.process on workflow state st over table tbl.  outcome is
\* what the classifier does if it is called; fault names the store call of
\* this run that raises (0 none, 1 first read, 2 first save, 3 second save,
\* 4 last read).  The result carries the new workflow state, the new table,
\* the messages handed to save_chat_message and whether the classifier ran.
process(st, tbl, outcome, fault) ==
    With(get_chat_history(tbl, st.user_id, HISTORY_LIMIT, fault # 1), LAMBDA hist :
    With(ProcessDecision(st, hist, outcome), LAMBDA d :
    With(ProcessMessages(st, d), LAMBDA saved :
    With(save_chat_message(tbl, st.user_id, saved[1], fault # 2), LAMBDA tbl1 :
    With(IF Len(saved) = 2 THEN save_chat_message(tbl1, st.user_id, saved[2], fault # 3) ELSE tbl1, LAMBDA tbl2 :
    With(get_chat_history(tbl2, st.user_id, HISTORY_LIMIT, fault # 4), LAMBDA after :
        [ state |-> IF Len(saved) = 2
                    THEN [st EXCEPT !.category = Some(d.category),
                                    !.chat_history = Some(after),
                                    !.response = Some([reply_html |-> d.html, items |-> << >>])]
                    ELSE [st EXCEPT !.category = Some(d.category),
                                    !.chat_history = Some(after),
                                    !.coordinator_response = Some(d.html),
                                    !.user_input = d.user_input],
          table |-> tbl2,
          history |-> hist,
          saved |-> saved,
          classifier |-> IF d.branch = "classify" /\ ~Truthy(st.image_data) THEN Some(outcome) ELSE None ]))))))

(***************************************************************************)
(* The workflow (agents/workflow.py): one request runs the coordinator     *)
(* node and then the node route_after_coordinator names.  pc is the node   *)
(* about to run ("idle" between requests); turn records what the           *)
(* coordinator did in the current request, nodes the nodes that have run   *)
(* in it, in the order they ran.                                           *)
(***************************************************************************)
VARIABLES state, pc, turn, analyzed, nodes

\* one call of the ingredient resolver (utils._fuzzy_match)
VARIABLES fname, fnames, fids, fcutoff, fuzz, fresult

\* the ingredient table and the requests creating rows in it
VARIABLES ingredient, writer, req

\* the ingredient resolution of one analyze request running alone
VARIABLES analysis

\* one call of CoordinatorAgent._extract_grams
VARIABLES gtext, gresult

\* one call of a helper that only reads its arguments: the helper called,
\* its text and log arguments and what it returned
VARIABLES cfn, ctext, chist, cret

storeVars == << chat_history, boot, dbTies, storeFaults >>
workflowVars == << state, pc, turn, analyzed, nodes >>
fuzzyVars == << fname, fnames, fids, fcutoff, fuzz, fresult >>
catalogVars == << ingredient, writer, req >>
analyzeVars == << analysis >>
gramsVars == << gtext, gresult >>
callVars == << cfn, ctext, chist, cret >>

MaxLog == 4

USERS == {"1"}

T_NO == <<"n","o">>
T_GRAMS == <<"1","5","0","g">>
T_ZERO == <<"0">>
T_EGGS == <<"h","a","d"," ","e","g","g","s">>
T_RECIPE == <<"r","e","c","i","p","e">>

RouterTexts == {T_NO, T_GRAMS, T_ZERO, T_EGGS, T_RECIPE}

IMAGE_DATA == <<"data:image/png;base64,...">>

\* NutritionAssistant.process_request: the initial workflow state
initial_state(user_input, user_id, image_data) ==
    [ user_input |-> user_input, user_id |-> user_id, image_data |-> image_data,
      category |-> None, coordinator_response |-> None, chat_history |-> None,
      response |-> None, error |-> None ]

\* between requests there is no workflow state
NoState == initial_state(<< >>, "1", None)

NoTurn == [ user_input |-> << >>, before |-> << >>, classifier |-> None, fault |-> 0 ]

\* a routing that sends every category to the pass-through node
route_after_coordinator_pass_through(st) == "in_conversation"

\* route_after_coordinator: state.get("category", "conversation") finds the
\* key process_request put there, so a category left at None ends the run
route_after_coordinator(st) ==
    IF st.category = None THEN "END"
    ELSE LET category == st.category[1]
         IN IF category \in {"conversation", "clarification"} THEN "in_conversation"
            ELSE IF category \in {"web_search", "recipe_generation", "coaching", "analyze_meal"} THEN category
            ELSE "END"

\* the store raises at most storeFaults more times
FaultAllowed(fault) == fault = 0 \/ storeFaults > 0

NoOutcome == [kind |-> "not_called", category |-> None]

\* whether process reaches the classifier request (it is not sent for an image)
ReachesClassifier(st, tbl, fault) ==
    /\ ~Truthy(st.image_data)
    /\ ProcessBranch(st.user_input, get_chat_history(tbl, st.user_id, HISTORY_LIMIT, fault # 1)) = "classify"

\* process_request up to and including the coordinator node and the routing,
\* for a message among texts, an upload among images and a classifier behaving
\* as one of outcomes
CoordinateOn(texts, images, outcomes) ==
    /\ pc = "idle"
    /\ Len(chat_history) + 2 <= MaxLog
    /\ \E user_input \in texts, user_id \in USERS, image_data \in images, fault \in 0..4 :
          /\ FaultAllowed(fault)
          /\ \E outcome \in IF ReachesClassifier(initial_state(user_input, user_id, image_data), chat_history, fault)
                            THEN outcomes ELSE {NoOutcome} :
                \E r \in {process(initial_state(user_input, user_id, image_data), chat_history, outcome, fault)} :
                   /\ state' = r.state
                   /\ chat_history' = r.table
                   /\ turn' = [ user_input |-> user_input, before |-> chat_history,
                                classifier |-> r.classifier, fault |-> fault ]
                   /\ pc' = route_after_coordinator(r.state)
                   /\ nodes' = << "coordinator" >>
          /\ storeFaults' = IF fault = 0 THEN storeFaults ELSE storeFaults - 1
    /\ UNCHANGED << boot, dbTies, analyzed >>
    /\ UNCHANGED << fuzzyVars, catalogVars, analyzeVars, gramsVars, callVars >>

Coordinate == CoordinateOn(RouterTexts, {None, Some(IMAGE_DATA)}, ClassifierOutcomes)

\* the requests sent while the log store is unreliable
FaultyTexts == {T_NO, T_GRAMS, T_EGGS}

FaultyOutcomes ==
    {o \in ClassifierOutcomes :
        \/ o.kind = "raise"
        \/ o.kind = "object" /\ o.category \notin {None, Some("conversation")}}

FaultyCoordinate == CoordinateOn(FaultyTexts, {None}, FaultyOutcomes)

\* messages with and without cue words: a meal cue with an item after the
\* verb, a meal cue in a text whose only token is not alphabetic, a recipe
\* cue next to a meal cue, a recipe cue alone, a capitalized recipe cue next
\* to a coaching cue, a coaching cue alone, the letters of a meal cue inside
\* a longer word, and no cue
T_LUNCH_Q == <<"l","u","n","c","h","?">>
T_COOK_DINNER == <<"c","o","o","k"," ","d","i","n","n","e","r">>
T_MAKE_HEALTHY == <<"M","a","k","e"," ","i","t"," ","h","e","a","l","t","h","y">>
T_DIET == <<"d","i","e","t">>
T_LATE == <<"l","a","t","e">>
T_HELP == <<"h","e","l","p">>

TopicTexts == {T_EGGS, T_LUNCH_Q, T_COOK_DINNER, T_RECIPE, T_MAKE_HEALTHY, T_DIET, T_LATE, T_HELP}

\* the classifier answers with a reply of its own or asks back
TopicOutcomes == {[kind |-> "object", category |-> Some(c)] : c \in {"conversation", "clarification"}}

TopicCoordinate == CoordinateOn(TopicTexts, {None}, TopicOutcomes)

\* in_conversation node: the coordinator has already set the response
InConversation ==
    /\ pc = "in_conversation"
    /\ pc' = "respond"
    /\ nodes' = Append(nodes, "in_conversation")
    /\ UNCHANGED << chat_history, boot, dbTies, storeFaults, state, turn, analyzed >>
    /\ UNCHANGED << fuzzyVars, catalogVars, analyzeVars, gramsVars, callVars >>

AnalysisSummary == << "I've analyzed your meal and identified the following items: ..." >>

NoItemsSummary == << "I couldn't identify any specific food items. Please provide more details." >>

FollowUpHtml == << "<p>[COORDINATOR FOLLOW-UP]</p> ..." >>

AnalyzerErrorHtml == << "<p>I encountered an error analyzing your meal. Please try again.</p>" >>

OptHtml(o) == IF o = None THEN << >> ELSE o[1]

\* analyze_meal node around AnalyzerAgent.process.  result is what parsing
\* and ingredient resolution yield: some items, no items, or an exception
\* (raised before the assistant message is saved).  fault: 0 none, 1 the
\* save of the user message, 2 the save of the assistant message.
AnalyzeMeal ==
    /\ pc = "analyze_meal"
    /\ Len(chat_history) + 2 <= MaxLog
    /\ \E result \in {"items", "empty", "raise"}, fault \in 0..2 :
          /\ FaultAllowed(fault)
          /\ \E user_input \in {state.user_input}, user_id \in {state.user_id},
                out \in {IF result = "items" THEN << "item" >> ELSE << >>} :
             \E tbl1 \in {save_chat_message(chat_history, user_id,
                             ChatMessage("user", user_input,
                                 Some(("category" :> "analyze_meal") @@ ("has_image" :> Truthy(state.image_data))),
                                 Some("analyze_meal"), None), fault # 1)} :
             \E tbl2 \in {save_chat_message(tbl1, user_id,
                             ChatMessage("assistant", IF out = << >> THEN NoItemsSummary ELSE AnalysisSummary,
                                 Some(("type" :> "analyze_meal") @@ ("items" :> out)),
                                 Some("analyze_meal"), Some("meal_analyzer")), fault # 2)} :
                /\ analyzed' = Some(user_input)
                /\ IF result = "raise"
                   THEN /\ chat_history' = tbl1
                        /\ state' = [state EXCEPT
                               !.error = Some(<< "Analyzer error: {e}" >>),
                               !.response = Some([reply_html |-> OptHtml(state.coordinator_response) \o AnalyzerErrorHtml,
                                                  items |-> << >>])]
                   ELSE /\ chat_history' = tbl2
                        /\ \E after \in {get_chat_history(tbl2, user_id, HISTORY_LIMIT, TRUE)} :
                              state' = [state EXCEPT
                                  !.response = Some([reply_html |-> OptHtml(state.coordinator_response) \o FollowUpHtml,
                                                     items |-> out]),
                                  !.chat_history = Some(after)]
          /\ storeFaults' = IF fault = 0 THEN storeFaults ELSE storeFaults - 1
    /\ pc' = "respond"
    /\ nodes' = Append(nodes, "analyze_meal")
    /\ UNCHANGED << boot, dbTies, turn >>
    /\ UNCHANGED << fuzzyVars, catalogVars, analyzeVars, gramsVars, callVars >>

\* web_search node around WebSearchAgent.process: one assistant message, untagged
SearchWeb ==
    /\ pc = "web_search"
    /\ Len(chat_history) + 1 <= MaxLog
    /\ \E fault \in 0..1 :
          /\ FaultAllowed(fault)
          /\ chat_history' = save_chat_message(chat_history, state.user_id,
                                 ChatMessage("assistant", << "<div>nutrition facts</div>" >>,
                                             Some("nutrition_data" :> "..."), None, None), fault # 1)
          /\ storeFaults' = IF fault = 0 THEN storeFaults ELSE storeFaults - 1
    /\ state' = [state EXCEPT !.response = Some([reply_html |-> OptHtml(state.coordinator_response) \o FollowUpHtml,
                                                 items |-> << >>])]
    /\ pc' = "respond"
    /\ nodes' = Append(nodes, "web_search")
    /\ UNCHANGED << boot, dbTies, turn, analyzed >>
    /\ UNCHANGED << fuzzyVars, catalogVars, analyzeVars, gramsVars, callVars >>

\* recipe_generation node around RecipeGenerationAgent.process: one user message
GenerateRecipe ==
    /\ pc = "recipe_generation"
    /\ Len(chat_history) + 1 <= MaxLog
    /\ \E fault \in 0..1 :
          /\ FaultAllowed(fault)
          /\ \E tbl1 \in {save_chat_message(chat_history, state.user_id,
                             UserMessage(state.user_input, "recipe_generation"), fault # 1)} :
             \E after \in {get_chat_history(tbl1, state.user_id, HISTORY_LIMIT, TRUE)} :
                /\ chat_history' = tbl1
                /\ state' = [state EXCEPT
                       !.response = Some([reply_html |-> OptHtml(state.coordinator_response) \o FollowUpHtml,
                                          items |-> << >>]),
                       !.chat_history = Some(after)]
          /\ storeFaults' = IF fault = 0 THEN storeFaults ELSE storeFaults - 1
    /\ pc' = "respond"
    /\ nodes' = Append(nodes, "recipe_generation")
    /\ UNCHANGED << boot, dbTies, turn, analyzed >>
    /\ UNCHANGED << fuzzyVars, catalogVars, analyzeVars, gramsVars, callVars >>

\* coaching node around CoachingAgent.process: nothing is saved
ProvideCoaching ==
    /\ pc = "coaching"
    /\ state' = [state EXCEPT !.response = Some([reply_html |-> OptHtml(state.coordinator_response)
                                                                \o << "<div>coaching advice</div>" >>,
                                                 items |-> << >>])]
    /\ pc' = "respond"
    /\ nodes' = Append(nodes, "coaching")
    /\ UNCHANGED << chat_history, boot, dbTies, storeFaults, turn, analyzed >>
    /\ UNCHANGED << fuzzyVars, catalogVars, analyzeVars, gramsVars, callVars >>

ErrorHtml == << "<p>Error: {error}</p>" >>

SystemErrorHtml == << "<p>System error: {e}</p>" >>

\* NutritionAssistant.process_request after workflow.invoke returned result:
\* an error set by a node makes the result unsuccessful; unpacking a response
\* that is still None raises inside the try and is answered by the handler
process_request(result) ==
    IF Truthy(result.error)
    THEN [ success |-> FALSE, category |-> None, reply_html |-> ErrorHtml, items |-> << >> ]
    ELSE IF result.response = None
    THEN [ success |-> FALSE, category |-> None, reply_html |-> SystemErrorHtml, items |-> << >> ]
    ELSE [ success |-> TRUE, category |-> result.category,
           reply_html |-> result.response[1].reply_html, items |-> result.response[1].items ]

\* process_request returns the response of the final state; the workflow
\* state of the request is dropped
Respond ==
    /\ pc \in {"respond", "END"}
    /\ pc' = "idle"
    /\ state' = NoState
    /\ turn' = NoTurn
    /\ analyzed' = None
    /\ nodes' = << >>
    /\ UNCHANGED << chat_history, boot, dbTies, storeFaults >>
    /\ UNCHANGED << fuzzyVars, catalogVars, analyzeVars, gramsVars, callVars >>

(***************************************************************************)
(* Text normalizer and fuzzy resolver (utils.py)                           *)
(***************************************************************************)
_STOP ==
    { <<"f","r","e","s","h">>,
      <<"o","r","g","a","n","i","c">>,
      <<"r","a","w">>,
      <<"c","o","o","k","e","d">>,
      <<"d","r","y">>,
      <<"d","r","i","e","d">>,
      <<"u","n","s","a","l","t","e","d">>,
      <<"s","a","l","t","e","d">>,
      <<"l","o","w","-","f","a","t">>,
      <<"l","o","w","f","a","t">>,
      <<"r","e","d","u","c","e","d","-","f","a","t">>,
      <<"l","e","a","n">>,
      <<"s","k","i","n","l","e","s","s">>,
      <<"b","o","n","e","l","e","s","s">>,
      <<"p","l","a","i","n">>,
      <<"f","i","r","m">>,
      <<"e","x","t","r","a","-","f","i","r","m">>,
      <<"s","i","l","k","e","n">>,
      <<"s","o","f","t">>,
      <<"e","x","t","r","a">> }

\* str.replace(old, new), leftmost occurrences first
RECURSIVE replace(_, _, _)
replace(s, old, new) ==
    IF find(s, old) = -1 THEN s
    ELSE Slice(s, 0, find(s, old)) \o new \o replace(Slice(s, find(s, old) + Len(old), Len(s)), old, new)

\* _WORD.findall(s): the maximal runs of [A-Za-z0-9]
RECURSIVE findall_WORD(_)
findall_WORD(s) ==
    IF s = << >> THEN << >>
    ELSE IF ~IsAlnumChar(s[1]) THEN findall_WORD(Tail(s))
    ELSE LET n == IF \E i \in 1..Len(s) : ~IsAlnumChar(s[i])
                  THEN (CHOOSE i \in 1..Len(s) : ~IsAlnumChar(s[i]) /\ \A j \in 1..(i-1) : IsAlnumChar(s[j])) - 1
                  ELSE Len(s)
         IN << SubSeq(s, 1, n) >> \o findall_WORD(SubSeq(s, n + 1, Len(s)))

NotStop(t) == t \notin _STOP

\* the tokens without the first stop word among them
RECURSIVE DropFirstStop(_)
DropFirstStop(toks) ==
    IF toks = << >> THEN << >>
    ELSE IF toks[1] \in _STOP THEN Tail(toks)
    ELSE << toks[1] >> \o DropFirstStop(Tail(toks))

\* _norm removing one stop word only
_norm_first_stop(s) ==
    LET s1 == strip(replace(lower(s), <<"U+00E2","U+20AC","U+2122">>, <<"'">>))
    IN join(DropFirstStop(findall_WORD(s1)))

\* the characters U+00E2 U+20AC U+2122 (a mis-decoded right quote) are the
\* elements "U+00E2", "U+20AC", "U+2122"
_norm(s) ==
    LET s1 == strip(replace(lower(s), <<"U+00E2","U+20AC","U+2122">>, <<"'">>))
    IN join(SelectSeq(findall_WORD(s1), NotStop))

_token_set(s) == Range(split(_norm(s)))

\* _len_ratio(a, b) > bound, for a whole-number bound; the ratio is inf for an empty string
LenRatioExceeds(a, b, bound) ==
    LET la == Len(a)
        lb == Len(b)
        hi == IF la > lb THEN la ELSE lb
        lo == IF la > lb THEN lb ELSE la
    IN IF la = 0 \/ lb = 0 THEN TRUE ELSE hi > bound * lo

ShortLen == 3

_short(s) == Len(s) <= ShortLen

(***************************************************************************)
(* The three fuzzywuzzy scorers are library code: fuzz holds, for the      *)
(* query of the call and each normalized candidate, the whole numbers      *)
(* 0..100 they return as <<WRatio, token_set_ratio, partial_ratio>>.       *)
(***************************************************************************)

fuzz_WRatio(q, cand) == fuzz[cand][1]

fuzz_token_set_ratio(q, cand) == fuzz[cand][2]

fuzz_partial_ratio(q, cand) == fuzz[cand][3]

\* _combined, in hundredths: 0.45*WRatio + 0.45*token_set_ratio + 0.10*partial_ratio
_combined(q, cand) ==
    45 * fuzz_WRatio(q, cand) + 45 * fuzz_token_set_ratio(q, cand) + 10 * fuzz_partial_ratio(q, cand)

LenRatioBound == 3

ShortMinScore == 98

\* the catalog names as the loops see them: position i (1-based) and the
\* normalized name cn
Candidates(names) == SelectSeq([i \in 1..Len(names) |-> [i |-> i, cn |-> _norm(names[i])]], LAMBDA c : TRUE)

\* the pre-filter without the test for a common token
PrelimKeeps_no_overlap(qn, q_tokens, cn) ==
    /\ cn # << >>
    /\ ~(~(q_tokens \subseteq _token_set(cn)) /\ LenRatioExceeds(qn, cn, LenRatioBound))

\* the pre-filter of _fuzzy_match (lines 140-154)
PrelimKeeps(qn, q_tokens, cn) ==
    /\ cn # << >>
    /\ q_tokens \cap _token_set(cn) # {}
    /\ ~(~(q_tokens \subseteq _token_set(cn)) /\ LenRatioExceeds(qn, cn, LenRatioBound))

Prelim(qn, q_tokens, names) == SelectSeq(Candidates(names), LAMBDA c : PrelimKeeps(qn, q_tokens, c.cn))

\* the subset rule left out: every pre-filtered candidate competes
SubsetOf_unrestricted(q_tokens, prelim) == prelim

\* the candidates of prelim whose tokens contain the query's tokens (lines 160-163)
SubsetOf(q_tokens, prelim) == SelectSeq(prelim, LAMBDA c : q_tokens \subseteq _token_set(c.cn))

\* the first candidate, whatever its score
Best_first(qn, cands) == cands[1]

\* the first candidate of cands with the highest combined score
Best(qn, cands) ==
    cands[CHOOSE k \in 1..Len(cands) :
             /\ \A m \in 1..Len(cands) : _combined(qn, cands[m].cn) <= _combined(qn, cands[k].cn)
             /\ \A m \in 1..(k-1) : _combined(qn, cands[m].cn) < _combined(qn, cands[k].cn)]

_fuzzy_match(name, names, ids, cutoff) ==
    IF names = << >> THEN None
    ELSE With(_norm(name), LAMBDA qn :
         IF qn = << >> THEN None
         ELSE With(_token_set(qn), LAMBDA q_tokens :
              With(Prelim(qn, q_tokens, names), LAMBDA prelim :
              IF prelim = << >> THEN None
              ELSE With(SubsetOf(q_tokens, prelim), LAMBDA subset :
                   IF subset # << >> THEN Some(ids[Best(qn, subset).i])
                   ELSE With(Best(qn, prelim), LAMBDA best :
                        IF _short(best.cn) /\ _combined(qn, best.cn) < ShortMinScore * 100 THEN None
                        ELSE IF _combined(qn, best.cn) >= cutoff * 100 THEN Some(ids[best.i])
                        ELSE None)))))

MaxCatalog == 2

N_A == <<"a">>
N_AB == <<"R","a","w"," ","A","-","b">>
N_ABC == <<"a"," ","b"," ","c">>
N_BD == <<"b"," ","d">>

FuzzyNames == {N_A, N_AB, N_ABC, N_BD}

Cutoffs == {90, 95}

\* scorer results <<WRatio, token_set_ratio, partial_ratio>> the model draws from
ScoreTriples == { <<60, 100, 100>>, <<90, 100, 100>>, <<100, 100, 100>>, <<99, 100, 100>>, <<90, 90, 80>> }

\* what holds of the scorers whatever the strings: equal strings score 100
\* on all three, token_set_ratio is 100 when one token set contains the
\* other and they share a token, and WRatio is below 100 for two different
\* processed strings (its edit ratio rounds to 100 only beyond 200 characters
\* and its token scores are scaled by 0.95)
ScorerFacts(qn, cn, triple) ==
    /\ cn = qn => triple = <<100, 100, 100>>
    /\ cn # qn => triple[1] < 100
    /\ ( /\ _token_set(qn) \cap _token_set(cn) # {}
         /\ (_token_set(qn) \subseteq _token_set(cn) \/ _token_set(cn) \subseteq _token_set(qn)) )
       => triple[2] = 100

\* calls whose catalog holds the query's normalized name: a query, a name
\* that normalizes to the same text, a superset of it, a name sharing one
\* token with it and a name made of a stop word
X_AB == <<"A"," ","b">>
X_RAW == <<"R","a","w">>

ExactQueries == {X_AB, N_ABC, X_RAW}

ExactNames == {N_AB, N_ABC, N_BD, X_RAW}

ExactCutoffs == {90, 100}

\* for each query and catalog name, the results the scorers can give
PossibleScores ==
    [q \in FuzzyNames \cup ExactQueries |->
        [n \in FuzzyNames \cup ExactNames |-> {t \in ScoreTriples : ScorerFacts(_norm(q), _norm(n), t)}]]

\* the score tables possible for a call: one result per normalized catalog name
ScoreTables(q, names) ==
    {t \in [{_norm(names[i]) : i \in 1..Len(names)} -> ScoreTriples] :
        \A i \in 1..Len(names) : t[_norm(names[i])] \in PossibleScores[q][names[i]]}

SeqsUpTo(S, n) == UNION {[1..k -> S] : k \in 0..n}

FuzzyInit ==
    /\ fname \in FuzzyNames
    /\ fnames \in SeqsUpTo(FuzzyNames, MaxCatalog)
    /\ fids = [i \in 1..Len(fnames) |-> 10 + i]
    /\ fcutoff \in Cutoffs
    /\ fuzz \in ScoreTables(fname, fnames)
    /\ fresult = <<"pending">>
    /\ chat_history = << >>
    /\ boot = 0
    /\ dbTies = "rowid_asc"
    /\ storeFaults = 0
    /\ state = NoState
    /\ pc = "idle"
    /\ turn = NoTurn
    /\ analyzed = None
    /\ nodes = << >>
    /\ ingredient = << >>
    /\ writer = 0
    /\ req = << >>
    /\ analysis = << >>
    /\ gtext = << >>
    /\ gresult = << >>
    /\ cfn = "none"
    /\ ctext = << >>
    /\ chist = << >>
    /\ cret = << >>

\* one call of _fuzzy_match
FuzzyMatch ==
    /\ fresult = <<"pending">>
    /\ fresult' = <<"returned", _fuzzy_match(fname, fnames, fids, fcutoff)>>
    /\ UNCHANGED << fname, fnames, fids, fcutoff, fuzz >>
    /\ UNCHANGED << storeVars, workflowVars, catalogVars, analyzeVars, gramsVars, callVars >>

(***************************************************************************)
(* Ingredient creation: AnalyzerAgent.create_new_ingredients, one session  *)
(* per request, against the SQLite ingredient table.                       *)
(***************************************************************************)
Requests == {1, 2}

MaxBatch == 2

K_Kiwi == <<"K","i","w","i">>
K_kiwi == <<"k","i","w","i">>

UnknownNames == {K_Kiwi, K_kiwi}

\* what one create_nutrition_card call ends in: a card whose four values
\* float() accepts, a card holding a value float() rejects, or nothing (the
\* request raised, or the reply lacks one of the four fields)
GeneratorOutcomes == {"card", "unparseable", "none"}

\* a generator whose every reply is taken as a valid card
create_nutrition_card_unvalidated(outcome) == Some("card")

create_nutrition_card(outcome) == IF outcome = "none" THEN None ELSE Some(outcome)

\* a Python dict as its items in insertion order
DictPut(items, k, v) ==
    IF \E i \in 1..Len(items) : items[i].key = k
    THEN [i \in 1..Len(items) |-> IF items[i].key = k THEN [key |-> k, value |-> v] ELSE items[i]]
    ELSE Append(items, [key |-> k, value |-> v])

DictHas(items, k) == \E i \in 1..Len(items) : items[i].key = k

DictAt(items, k) == items[CHOOSE i \in 1..Len(items) : items[i].key = k].value

RECURSIVE NewCards(_, _, _)
NewCards(unknown_names, outcomes, new_cards) ==
    IF unknown_names = << >> THEN new_cards
    ELSE LET card == create_nutrition_card(Head(outcomes))
         IN  NewCards(Tail(unknown_names), Tail(outcomes),
                      IF card = None THEN new_cards
                      ELSE DictPut(new_cards, Head(unknown_names), card[1]))

\* flushed counts the rows the call has added and flushed so far
IdleRequest == [pc |-> "idle", new_cards |-> << >>, idx |-> 0, pending |-> << >>, created_ids |-> << >>, flushed |-> 0]

\* what a session reads: the committed rows and its own flushed ones
Visible(rq) == ingredient \o rq.pending

MaxId(rows) == IF rows = << >> THEN 0 ELSE CHOOSE m \in {rows[i].id : i \in 1..Len(rows)} : \A i \in 1..Len(rows) : rows[i].id <= m

\* the rows func.lower(Ingredient.name) == uname.lower() selects
ExistingRows(rq, uname) == {i \in 1..Len(Visible(rq)) : sqlite_lower(Visible(rq)[i].name) = lower(uname)}

\* the for loop moves to the next card, or leaves for the commit
Continue(rq) ==
    [rq EXCEPT !.idx = rq.idx + 1,
               !.pc = IF rq.idx + 1 > Len(rq.new_cards) THEN "commit" ELSE "recheck"]

\* a handler that commits what was flushed before raising
rollback_commits(table, rq) ==
    [table |-> table \o rq.pending, request |-> [rq EXCEPT !.pc = "raised", !.pending = << >>, !.created_ids = << >>]]

\* db.session.rollback() followed by raise: the session's flushed rows are
\* discarded, the table keeps what was committed, nothing is returned
rollback(table, rq) ==
    [table |-> table, request |-> [rq EXCEPT !.pc = "raised", !.pending = << >>, !.created_ids = << >>]]

\* lines 208-214: the cards are generated, the loop is entered
Begin(r) ==
    /\ req[r].pc = "idle"
    /\ \E n \in 1..MaxBatch : \E unknown_names \in [1..n -> UnknownNames] : \E outcomes \in [1..n -> GeneratorOutcomes] :
          LET new_cards == NewCards(unknown_names, outcomes, << >>)
          IN  req' = [req EXCEPT ![r] = Continue([IdleRequest EXCEPT !.new_cards = new_cards])]
    /\ UNCHANGED << ingredient, writer >>
    /\ UNCHANGED << storeVars, workflowVars, fuzzyVars, analyzeVars, gramsVars, callVars >>

\* what lines 217-239 can make of the request at its current card: float()
\* rejects a value, or the re-check finds a row (.first() takes any of
\* several), or the name has to be inserted
Rechecked(rq) ==
    LET uname == rq.new_cards[rq.idx].key
        card == rq.new_cards[rq.idx].value
        key == _norm(uname)
    IN  IF card = "unparseable" THEN {Continue(rq)}
        ELSE IF ExistingRows(rq, uname) # {}
        THEN {Continue([rq EXCEPT !.created_ids = DictPut(rq.created_ids, key, Visible(rq)[i].id)]) :
                 i \in ExistingRows(rq, uname)}
        ELSE {[rq EXCEPT !.pc = "insert"]}

\* the request after lines 242-252 have added and flushed the row of its
\* current card in session r
Flushed(rq, r) ==
    LET uname == rq.new_cards[rq.idx].key
        ing == [id |-> MaxId(Visible(rq)) + 1, name |-> uname, by |-> r]
    IN  Continue([rq EXCEPT !.pending = Append(rq.pending, ing),
                            !.flushed = rq.flushed + 1,
                            !.created_ids = DictPut(rq.created_ids, _norm(uname), ing.id)])

\* lines 217-239: float() of the card's values, then the re-check query
Recheck(r) ==
    /\ req[r].pc = "recheck"
    /\ \E next \in Rechecked(req[r]) : req' = [req EXCEPT ![r] = next]
    /\ UNCHANGED << ingredient, writer >>
    /\ UNCHANGED << storeVars, workflowVars, fuzzyVars, analyzeVars, gramsVars, callVars >>

\* lines 242-252: add and flush; SQLite admits one writing session at a time
Insert(r) ==
    /\ req[r].pc = "insert"
    /\ writer \in {0, r}
    /\ req' = [req EXCEPT ![r] = Flushed(req[r], r)]
    /\ writer' = r
    /\ UNCHANGED ingredient
    /\ UNCHANGED << storeVars, workflowVars, fuzzyVars, analyzeVars, gramsVars, callVars >>

\* lines 254, 261-262: commit, return created_ids
Commit(r) ==
    /\ req[r].pc = "commit"
    /\ ingredient' = ingredient \o req[r].pending
    /\ writer' = IF writer = r THEN 0 ELSE writer
    /\ req' = [req EXCEPT ![r].pc = "returned", ![r].pending = << >>]
    /\ UNCHANGED << storeVars, workflowVars, fuzzyVars, analyzeVars, gramsVars, callVars >>

\* lines 256-259: the query, the flush (also: the table stays locked by the
\* other session) or the commit raises
Fail(r) ==
    /\ req[r].pc \in {"recheck", "insert", "commit"}
    /\ LET after == rollback(ingredient, req[r])
       IN  /\ ingredient' = after.table
           /\ req' = [req EXCEPT ![r] = after.request]
    /\ writer' = IF writer = r THEN 0 ELSE writer
    /\ UNCHANGED << storeVars, workflowVars, fuzzyVars, analyzeVars, gramsVars, callVars >>

(***************************************************************************)
(* The ingredient resolution of AnalyzerAgent.process (lines 313-349) for  *)
(* a request that runs with no other session active: process_ingredients,  *)
(* create_new_ingredients and the response items.                          *)
(***************************************************************************)
K_Eclair == <<"U+00C9","c","l","a","i","r">>
K_eclair == <<"U+00E9","c","l","a","i","r">>
K_RawKiwi == <<"R","a","w"," ","K","i","w","i">>

\* the names the parser hands over, each with positive grams
ItemNames == UnknownNames \cup {K_Eclair, K_eclair, K_RawKiwi}

\* two normalized names of ItemNames share a token only if they are equal;
\* the three scorers give 100 for equal strings
ExactScores == [cn \in {_norm(n) : n \in ItemNames} |-> <<100, 100, 100>>]

\* utils._load_ingredient_index: parallel lists of names and ids
_load_ingredient_index(table) ==
    [ names |-> [i \in 1..Len(table) |-> table[i].name],
      ids |-> [i \in 1..Len(table) |-> table[i].id] ]

\* line 181: (it.get("ingredient_name") or "").strip()
NameOf(it) == IF it.ingredient_name = None THEN << >> ELSE strip(it.ingredient_name[1])

\* line 186: the raw items the loop does not skip
Kept(raw_items) ==
    SelectSeq(raw_items, LAMBDA it : ~(NameOf(it) = << >> \/ GramsRejected(GramsOf(it.grams))))

\* AnalyzerAgent.process_ingredients on the parser's raw items
process_ingredients(table, raw_items) ==
    With(_load_ingredient_index(table), LAMBDA index :
    With(Kept(raw_items), LAMBDA kept :
    With([i \in 1..Len(kept) |->
             [ ingredient_name |-> NameOf(kept[i]),
               grams |-> GramsOf(kept[i].grams),
               ingredient_id |-> IF index.names # << >> /\ index.ids # << >>
                                 THEN _fuzzy_match(NameOf(kept[i]), index.names, index.ids, 90)
                                 ELSE None ]], LAMBDA items :
    With(SelectSeq(items, LAMBDA it : it.ingredient_id = None), LAMBDA unknown :
        [ items |-> items,
          unknown_names |-> [i \in 1..Len(unknown) |-> unknown[i].ingredient_name] ]))))

\* the names create_new_ingredients passes to create_nutrition_card, in
\* the order of the calls (lines 209-210)
GeneratorCalls(unknown_names) == unknown_names

\* the for loop of lines 217-252 run to its end in session 1
RECURSIVE RunsAlone(_)
RunsAlone(rq) ==
    IF rq.pc = "commit" THEN {rq}
    ELSE IF rq.pc = "recheck" THEN UNION {RunsAlone(next) : next \in Rechecked(rq)}
    ELSE RunsAlone(Flushed(rq, 1))

\* create_new_ingredients(unknown_names) on the ingredient table; outcomes
\* are the results of the generator calls, commit_ok = FALSE is a commit
\* that raises
create_new_ingredients(unknown_names, outcomes, commit_ok) ==
    { IF commit_ok
      THEN [ table |-> ingredient \o final.pending, created_ids |-> final.created_ids, raised |-> FALSE ]
      ELSE [ table |-> rollback(ingredient, final).table, created_ids |-> << >>, raised |-> TRUE ] :
      final \in RunsAlone(Continue([IdleRequest EXCEPT !.new_cards = NewCards(unknown_names, outcomes, << >>)])) }

\* the ids lines 334-342 can give an item: the matched id, the id created
\* for its normalized name, or what the exact-name query finds
MatchedIds(table, it, created_ids) ==
    IF it.ingredient_id # None THEN {it.ingredient_id}
    ELSE IF DictHas(created_ids, _norm(it.ingredient_name))
    THEN {Some(DictAt(created_ids, _norm(it.ingredient_name)))}
    ELSE LET hits == {i \in 1..Len(table) : sqlite_lower(table[i].name) = lower(it.ingredient_name)}
         IN  IF hits = {} THEN {None} ELSE {Some(table[i].id) : i \in hits}

\* id_to_name.get(matched_id, it.ingredient_name)
CanonicalName(table, matched_id, name) ==
    IF matched_id # None /\ \E i \in 1..Len(table) : table[i].id = matched_id[1]
    THEN table[CHOOSE i \in 1..Len(table) : table[i].id = matched_id[1] /\ \A j \in (i+1)..Len(table) : table[j].id # matched_id[1]].name
    ELSE name

\* the response items of lines 331-349
RECURSIVE ResponseItems(_, _, _)
ResponseItems(table, items, created_ids) ==
    IF items = << >> THEN {<< >>}
    ELSE { << [ ingredient_name |-> CanonicalName(table, id, Head(items).ingredient_name),
                grams |-> Head(items).grams,
                ingredient_id |-> id ] >> \o rest :
           id \in MatchedIds(table, Head(items), created_ids),
           rest \in ResponseItems(table, Tail(items), created_ids) }

IdleAnalysis ==
    [ pc |-> "idle", before |-> << >>, items |-> << >>, unknown_names |-> << >>, outcomes |-> << >>,
      generated |-> << >>, commit_ok |-> TRUE, created_ids |-> << >>, out |-> << >> ]

\* lines 313-349 of one request whose parser returned items of raws
AnalyzeOn(raws) ==
    /\ analysis.pc = "idle"
    /\ \E n \in 1..MaxBatch : \E raw_items \in [1..n -> raws] :
          \E p \in {process_ingredients(ingredient, raw_items)} :
             IF p.unknown_names = << >>
             THEN /\ ingredient' = ingredient
                  /\ \E out \in ResponseItems(ingredient, p.items, << >>) :
                        analysis' = [IdleAnalysis EXCEPT !.pc = "done", !.before = ingredient,
                                                         !.items = p.items, !.out = out]
             ELSE \E outcomes \in [1..Len(p.unknown_names) -> GeneratorOutcomes], commit_ok \in BOOLEAN :
                     \E created \in create_new_ingredients(p.unknown_names, outcomes, commit_ok) :
                        /\ ingredient' = created.table
                        /\ IF created.raised
                           THEN analysis' = [IdleAnalysis EXCEPT !.pc = "raised", !.before = ingredient,
                                                                 !.items = p.items,
                                                                 !.unknown_names = p.unknown_names,
                                                                 !.outcomes = outcomes,
                                                                 !.generated = GeneratorCalls(p.unknown_names),
                                                                 !.commit_ok = commit_ok]
                           ELSE \E out \in ResponseItems(created.table, p.items, created.created_ids) :
                                   analysis' = [ pc |-> "done", before |-> ingredient, items |-> p.items,
                                                 unknown_names |-> p.unknown_names, outcomes |-> outcomes,
                                                 generated |-> GeneratorCalls(p.unknown_names),
                                                 commit_ok |-> commit_ok,
                                                 created_ids |-> created.created_ids, out |-> out ]
    /\ UNCHANGED << writer, req >>
    /\ UNCHANGED << storeVars, workflowVars, fuzzyVars, gramsVars, callVars >>

\* raw items with a name and a positive number of grams
NamedItems == {[ingredient_name |-> Some(n), grams |-> JNumber(150000)] : n \in ItemNames}

Analyze == AnalyzeOn(NamedItems)

\* raw items as the parser's JSON can carry them: the grams a number, a
\* numeral in a string, zero, negative, null, text that is no number, "nan";
\* the name blank or missing; X_RAW is a name _norm maps to the empty text
T_150 == <<"1","5","0">>
T_NAN == <<"n","a","n">>
T_LOTS == <<"l","o","t","s">>

ParsedItems ==
    { [ingredient_name |-> Some(K_kiwi), grams |-> JNumber(150000)],
      [ingredient_name |-> Some(K_Kiwi), grams |-> JString(T_150)],
      [ingredient_name |-> Some(X_RAW), grams |-> JNumber(2500)],
      [ingredient_name |-> Some(K_kiwi), grams |-> JNumber(0)],
      [ingredient_name |-> Some(K_Kiwi), grams |-> JNumber(0 - 5000)],
      [ingredient_name |-> Some(K_kiwi), grams |-> JNull],
      [ingredient_name |-> Some(K_Kiwi), grams |-> JString(T_LOTS)],
      [ingredient_name |-> Some(K_kiwi), grams |-> JString(T_NAN)],
      [ingredient_name |-> Some(<<" ">>), grams |-> JNumber(150000)],
      [ingredient_name |-> None, grams |-> JNumber(150000)] }

AnalyzeParsed == AnalyzeOn(ParsedItems)

\* the next analyze request arrives after the previous one has ended
NextRequest ==
    /\ analysis.pc \in {"done", "raised"}
    /\ analysis' = IdleAnalysis
    /\ UNCHANGED << storeVars, workflowVars, fuzzyVars, catalogVars, gramsVars, callVars >>

(***************************************************************************)
(* Calls of CoordinatorAgent._extract_grams on replies made of an          *)
(* optional lead, a numeral, a separator, a unit and a tail.               *)
(***************************************************************************)
GramLeads == { << >>,
               <<"1"," ","b","l","o","c","k"," ","(","~">>,
               <<"a","b","o","u","t"," ">>,
               <<"x">> }

GramNumerals == { << >>, <<"3","0","0">>, <<"2",".","5">>, <<"0">> }

GramSeparators == { << >>, <<" ">> }

GramUnits == { << >>, <<"g">>, <<"G","r","a","m","s">>, <<"k","g">> }

GramTails == { << >>, <<")">>, <<" ","o","r"," ","s","o">> }

GramTexts ==
    { lead \o numeral \o sep \o unit \o tail :
        lead \in GramLeads, numeral \in GramNumerals, sep \in GramSeparators,
        unit \in GramUnits, tail \in GramTails }

\* the call returns
ExtractGrams ==
    /\ gresult = <<"pending">>
    /\ gresult' = <<"returned", _extract_grams(gtext)>>
    /\ UNCHANGED gtext
    /\ UNCHANGED << storeVars, workflowVars, fuzzyVars, catalogVars, analyzeVars, callVars >>

(***************************************************************************)
(* Calls of the helpers that only read their arguments: utils._norm,       *)
(* CoordinatorAgent._is_negative_reply, CoordinatorAgent.                  *)
(* _find_recent_meal_item and the choice of transition at the head of      *)
(* CoordinatorAgent.process.  A missing text (None) is the empty text.     *)
(***************************************************************************)
N_MANGO == <<"M","a","n","g","o">>
N_FRESH_MANGO == <<"F","r","e","s","h"," ","M","a","n","g","o">>
N_LOW_FAT == <<" ","L","o","w","-","F","a","t"," "," ","M","i","l","k","!">>
N_FRESH_RAW == <<"f","r","e","s","h",",","R","A","W">>
N_QUOTE == <<"c","h","e","f","U+00E2","U+20AC","U+2122","s"," ","e","x","t","r","a"," ","t","o","f","u">>
N_EX_TRA == <<"e","x","-","t","r","a"," ","2","%">>

NormInputs ==
    { << >>, <<" ">>, N_MANGO, N_FRESH_MANGO, N_LOW_FAT, N_FRESH_RAW, N_QUOTE, N_EX_TRA,
      N_A, N_AB, N_ABC, N_BD, K_Kiwi, K_kiwi, K_Eclair, K_eclair, T_EGGS, T_GRAMS }

T_NO_THANKS == <<"n","o"," ","t","h","a","n","k","s">>

\* replies built from a phrase, padded with blanks or wrapped in other words
ReplyPads == { << >>, <<" ">>, <<" ", " ">> }

ReplyPhrases ==
    NEGATIVE_REPLIES \cup
    { <<"N","o">>, <<"N","O","P","E">>, <<"T","h","a","t","'","s"," ","I","t">> }

ReplyOthers ==
    { << >>, T_NO_THANKS, <<"n","o","t">>, <<"o","n">>, <<"n","o"," ","n","o">>,
      <<"n","o","t","h","i","n","g">>, <<"t","h","a","t","'","s"," ","i","t","!">> }

ReplyTexts ==
    { pre \o body \o post :
        pre \in ReplyPads \cup {<<"o","h"," ">>},
        body \in ReplyPhrases \cup ReplyOthers,
        post \in ReplyPads \cup {<<" ","t","h","a","n","k","s">>} }

\* the messages of the logs handed to the helpers
T_HAD_TWO == <<"h","a","d"," ","2">>
T_HI == <<"h","i">>
T_ATE_RICE == <<"I"," ","a","t","e"," ","r","i","c","e"," ","f","o","r"," ","l","u","n","c","h">>

RecentMessages ==
    { UserMessage(T_EGGS, "analyze_meal"),
      UserMessage(T_HAD_TWO, "conversation"),
      UserMessage(T_HI, "conversation"),
      UserMessage(T_ATE_RICE, "analyze_meal"),
      ChatMessage("assistant", T_EGGS, Some(CoordinatorMetadata("conversation", T_EGGS)), Some("conversation"), None),
      ChatMessage("assistant", AskGramsHtml(<<"e","g","g","s">>), Some(ClarificationMetadata(<<"e","g","g","s">>)),
                  Some("clarification"), None) }

MaxRecent == 3

RecentLogs == SeqsUpTo(RecentMessages, MaxRecent)

\* _norm(ctext) returns
Norm ==
    /\ cfn = "_norm"
    /\ cret = <<"pending">>
    /\ cret' = <<"returned", _norm(ctext)>>
    /\ UNCHANGED << cfn, ctext, chist >>
    /\ UNCHANGED << storeVars, workflowVars, fuzzyVars, catalogVars, analyzeVars, gramsVars >>

\* _is_negative_reply(ctext) returns
IsNegativeReply ==
    /\ cfn = "_is_negative_reply"
    /\ cret = <<"pending">>
    /\ cret' = <<"returned", _is_negative_reply(ctext)>>
    /\ UNCHANGED << cfn, ctext, chist >>
    /\ UNCHANGED << storeVars, workflowVars, fuzzyVars, catalogVars, analyzeVars, gramsVars >>

\* _find_recent_meal_item(chist) returns
FindRecentMealItem ==
    /\ cfn = "_find_recent_meal_item"
    /\ cret = <<"pending">>
    /\ cret' = <<"returned", _find_recent_meal_item(chist)>>
    /\ UNCHANGED << cfn, ctext, chist >>
    /\ UNCHANGED << storeVars, workflowVars, fuzzyVars, catalogVars, analyzeVars, gramsVars >>

\* process has chosen its transition for the message ctext over the log chist
ChooseBranch ==
    /\ cfn = "process"
    /\ cret = <<"pending">>
    /\ cret' = <<"returned", ProcessBranch(ctext, chist)>>
    /\ UNCHANGED << cfn, ctext, chist >>
    /\ UNCHANGED << storeVars, workflowVars, fuzzyVars, catalogVars, analyzeVars, gramsVars >>

(***************************************************************************)
(* Specifications                                                          *)
(***************************************************************************)
vars == << storeVars, workflowVars, fuzzyVars, catalogVars, analyzeVars, gramsVars, callVars >>

\* the application after create_app(): an empty chat_history table
RouterInit ==
    /\ chat_history = << >>
    /\ boot = 0
    /\ dbTies \in TIE_ORDERS
    /\ storeFaults = 0
    /\ state = NoState
    /\ pc = "idle"
    /\ turn = NoTurn
    /\ analyzed = None
    /\ nodes = << >>
    /\ fname = << >>
    /\ fnames = << >>
    /\ fids = << >>
    /\ fcutoff = 0
    /\ fuzz = << >>
    /\ fresult = << >>
    /\ ingredient = << >>
    /\ writer = 0
    /\ req = << >>
    /\ analysis = << >>
    /\ gtext = << >>
    /\ gresult = << >>
    /\ cfn = "none"
    /\ ctext = << >>
    /\ chist = << >>
    /\ cret = << >>

RouterNext ==
    \/ Coordinate
    \/ InConversation
    \/ AnalyzeMeal
    \/ SearchWeb
    \/ GenerateRecipe
    \/ ProvideCoaching
    \/ Respond

SpecRouter == RouterInit /\ [][RouterNext]_vars

\* the same application over a log store one call of which raises
FaultyInit ==
    /\ chat_history = << >>
    /\ boot = 0
    /\ dbTies \in TIE_ORDERS
    /\ storeFaults = 1
    /\ state = NoState
    /\ pc = "idle"
    /\ turn = NoTurn
    /\ analyzed = None
    /\ nodes = << >>
    /\ fname = << >>
    /\ fnames = << >>
    /\ fids = << >>
    /\ fcutoff = 0
    /\ fuzz = << >>
    /\ fresult = << >>
    /\ ingredient = << >>
    /\ writer = 0
    /\ req = << >>
    /\ analysis = << >>
    /\ gtext = << >>
    /\ gresult = << >>
    /\ cfn = "none"
    /\ ctext = << >>
    /\ chist = << >>
    /\ cret = << >>

FaultyNext ==
    \/ FaultyCoordinate
    \/ InConversation
    \/ AnalyzeMeal
    \/ SearchWeb
    \/ GenerateRecipe
    \/ ProvideCoaching
    \/ Respond

SpecFaulty == FaultyInit /\ [][FaultyNext]_vars

\* a request is taken when the log has room for every row its nodes append
\* (one by the coordinator and two by the analyzer at most)
MaxAppended == 3

CoordinateToEnd ==
    /\ Len(chat_history) + MaxAppended <= MaxLog
    /\ Coordinate

PipelineNext ==
    \/ CoordinateToEnd
    \/ InConversation
    \/ AnalyzeMeal
    \/ SearchWeb
    \/ GenerateRecipe
    \/ ProvideCoaching
    \/ Respond

\* workflow.invoke is one synchronous call: once the coordinator has
\* returned, the node the routing names runs and process_request returns
RunToEnd ==
    \/ InConversation
    \/ AnalyzeMeal
    \/ SearchWeb
    \/ GenerateRecipe
    \/ ProvideCoaching
    \/ Respond

SpecPipeline == RouterInit /\ [][PipelineNext]_vars /\ WF_vars(RunToEnd)

\* turns the classifier answers itself
TopicNext ==
    \/ TopicCoordinate
    \/ InConversation
    \/ Respond

SpecTopics == RouterInit /\ [][TopicNext]_vars

FuzzyNext == FuzzyMatch

SpecFuzzy == FuzzyInit /\ [][FuzzyNext]_vars

\* one call of the resolver for a query over a catalog that may hold its
\* normalized name
ExactInit ==
    /\ fname \in ExactQueries
    /\ fnames \in SeqsUpTo(ExactNames, MaxCatalog)
    /\ fids = [i \in 1..Len(fnames) |-> 10 + i]
    /\ fcutoff \in ExactCutoffs
    /\ fuzz \in ScoreTables(fname, fnames)
    /\ fresult = <<"pending">>
    /\ chat_history = << >>
    /\ boot = 0
    /\ dbTies = "rowid_asc"
    /\ storeFaults = 0
    /\ state = NoState
    /\ pc = "idle"
    /\ turn = NoTurn
    /\ analyzed = None
    /\ nodes = << >>
    /\ ingredient = << >>
    /\ writer = 0
    /\ req = << >>
    /\ analysis = << >>
    /\ gtext = << >>
    /\ gresult = << >>
    /\ cfn = "none"
    /\ ctext = << >>
    /\ chist = << >>
    /\ cret = << >>

SpecExact == ExactInit /\ [][FuzzyNext]_vars

\* an empty ingredient table and two requests about to create ingredients
CatalogInit ==
    /\ ingredient = << >>
    /\ writer = 0
    /\ req = [r \in Requests |-> IdleRequest]
    /\ analysis = << >>
    /\ gtext = << >>
    /\ gresult = << >>
    /\ cfn = "none"
    /\ ctext = << >>
    /\ chist = << >>
    /\ cret = << >>
    /\ chat_history = << >>
    /\ boot = 0
    /\ dbTies = "rowid_asc"
    /\ storeFaults = 0
    /\ state = NoState
    /\ pc = "idle"
    /\ turn = NoTurn
    /\ analyzed = None
    /\ nodes = << >>
    /\ fname = << >>
    /\ fnames = << >>
    /\ fids = << >>
    /\ fcutoff = 0
    /\ fuzz = << >>
    /\ fresult = << >>

CatalogNext == \E r \in Requests : Begin(r) \/ Recheck(r) \/ Insert(r) \/ Commit(r) \/ Fail(r)

SpecCatalog == CatalogInit /\ [][CatalogNext]_vars

\* an empty ingredient table and no analyze request yet
AnalyzeInit ==
    /\ ingredient = << >>
    /\ writer = 0
    /\ req = << >>
    /\ analysis = IdleAnalysis
    /\ gtext = << >>
    /\ gresult = << >>
    /\ cfn = "none"
    /\ ctext = << >>
    /\ chist = << >>
    /\ cret = << >>
    /\ chat_history = << >>
    /\ boot = 0
    /\ dbTies = "rowid_asc"
    /\ storeFaults = 0
    /\ state = NoState
    /\ pc = "idle"
    /\ turn = NoTurn
    /\ analyzed = None
    /\ nodes = << >>
    /\ fname = << >>
    /\ fnames = << >>
    /\ fids = << >>
    /\ fcutoff = 0
    /\ fuzz = ExactScores
    /\ fresult = << >>

AnalyzeNext == Analyze \/ NextRequest

SpecAnalyze == AnalyzeInit /\ [][AnalyzeNext]_vars

ParsedNext == AnalyzeParsed \/ NextRequest

SpecParsed == AnalyzeInit /\ [][ParsedNext]_vars

\* a reply about to be searched for a gram amount
GramsInit ==
    /\ gtext \in GramTexts
    /\ gresult = <<"pending">>
    /\ cfn = "none"
    /\ ctext = << >>
    /\ chist = << >>
    /\ cret = << >>
    /\ ingredient = << >>
    /\ writer = 0
    /\ req = << >>
    /\ analysis = << >>
    /\ chat_history = << >>
    /\ boot = 0
    /\ dbTies = "rowid_asc"
    /\ storeFaults = 0
    /\ state = NoState
    /\ pc = "idle"
    /\ turn = NoTurn
    /\ analyzed = None
    /\ nodes = << >>
    /\ fname = << >>
    /\ fnames = << >>
    /\ fids = << >>
    /\ fcutoff = 0
    /\ fuzz = << >>
    /\ fresult = << >>

GramsNext == ExtractGrams

SpecGrams == GramsInit /\ [][GramsNext]_vars

\* one call of a helper on arguments drawn from the sets above
CallsInit ==
    /\ cfn \in {"_norm", "_is_negative_reply", "_find_recent_meal_item", "process"}
    /\ ctext \in IF cfn = "_norm" THEN NormInputs
                 ELSE IF cfn = "_is_negative_reply" THEN ReplyTexts
                 ELSE IF cfn = "process" THEN {T_NO, T_NO_THANKS}
                 ELSE {<< >>}
    /\ chist \in IF cfn \in {"_find_recent_meal_item", "process"} THEN RecentLogs ELSE {<< >>}
    /\ cret = <<"pending">>
    /\ gtext = << >>
    /\ gresult = << >>
    /\ ingredient = << >>
    /\ writer = 0
    /\ req = << >>
    /\ analysis = << >>
    /\ chat_history = << >>
    /\ boot = 0
    /\ dbTies = "rowid_asc"
    /\ storeFaults = 0
    /\ state = NoState
    /\ pc = "idle"
    /\ turn = NoTurn
    /\ analyzed = None
    /\ nodes = << >>
    /\ fname = << >>
    /\ fnames = << >>
    /\ fids = << >>
    /\ fcutoff = 0
    /\ fuzz = << >>
    /\ fresult = << >>

CallsNext ==
    \/ Norm
    \/ IsNegativeReply
    \/ FindRecentMealItem
    \/ ChooseBranch

SpecCalls == CallsInit /\ [][CallsNext]_vars

(***************************************************************************)
(* Properties of the coordinator                                           *)
(***************************************************************************)
\* the coordinator node has returned and the downstream node has not run yet
Routed == pc \notin {"idle", "respond"}

\* the history the coordinator read at the start of the current request
TurnHistory == get_chat_history(turn.before, state.user_id, HISTORY_LIMIT, TRUE)

\* the rows the current request has appended so far
Appended == SubSeq(chat_history, Len(turn.before) + 1, Len(chat_history))

RowsOfRole(rows, role) == {i \in 1..Len(rows) : rows[i].role = role}

\* the last assistant row tagged clarification, in insertion order
LastClarificationRow(tbl) ==
    LET idx == {i \in 1..Len(tbl) : tbl[i].role = "assistant" /\ tbl[i].category = Some("clarification")}
    IN IF idx = {} THEN None ELSE Some(tbl[CHOOSE i \in idx : \A j \in idx : j <= i])

\* the log's most recent assistant clarification has topic meal_logging and anchor item
OpenMealClarification(tbl, item) ==
    /\ LastClarificationRow(tbl) # None
    /\ LastClarificationRow(tbl)[1].message_metadata # None
    /\ LET meta == json_loads(LastClarificationRow(tbl)[1].message_metadata[1])
       IN /\ DictGet(meta, "clarifying_about") = Some("meal_logging")
          /\ DictGet(meta, "clarifying_item") = Some(item)

ITEM_EGGS == <<"e","g","g","s">>

AnchorItems == {ITEM_EGGS, DEFAULT_ITEM_NEGATIVE, DEFAULT_ITEM_QUANTITY}

\* C1: when the most recent assistant clarification of the log has topic
\* meal_logging and anchor item I and the new message is a negative reply,
\* process returns category clarification without calling the classifier,
\* asks for the grams of I, and appends an assistant message tagged
\* clarification with topic meal_logging and item I, from which the next turn
\* reconstructs the same open clarification.
C1_NegativeReplyKeepsClarification ==
    pc = "idle" =>
        \A item \in AnchorItems : OpenMealClarification(chat_history, item) =>
            \A outcome \in ClassifierOutcomes :
                LET r == process(initial_state(T_NO, "1", None), chat_history, outcome, 0)
                    next == _last_clarification_about(get_chat_history(r.table, "1", HISTORY_LIMIT, TRUE))
                IN /\ r.state.category = Some("clarification")
                   /\ r.classifier = None
                   /\ r.state.response = Some([reply_html |-> AskGramsHtml(item), items |-> << >>])
                   /\ Len(r.saved) = 2
                   /\ r.saved[2].role = "assistant"
                   /\ r.saved[2].category = Some("clarification")
                   /\ DictGet(r.saved[2].metadata[1], "clarifying_about") = Some("meal_logging")
                   /\ DictGet(r.saved[2].metadata[1], "clarifying_item") = Some(item)
                   /\ next[1] = Some("meal_logging")
                   /\ DictGet(next[3][1], "clarifying_item") = Some(item)

\* the state reconstructed at the start of the current request is
\* AwaitingClarification(meal_logging, item)
Awaiting(item) ==
    /\ _last_clarification_about(TurnHistory)[1] = Some("meal_logging")
    /\ DictGet(_last_clarification_about(TurnHistory)[3][1], "clarifying_item") = Some(item)

\* the request was routed to the analyzer without the classifier, with a
\* rewritten input that names the item and carries the grams
RewrittenFor(item, grams) ==
    /\ state.category = Some("analyze_meal")
    /\ pc = "analyze_meal"
    /\ turn.classifier = None
    /\ state.user_input # turn.user_input
    /\ contains(state.user_input, item)
    /\ _extract_grams(state.user_input) = Some(grams)

\* C2 as stated: with AwaitingClarification(meal_logging, I) reconstructed and
\* a quantity G extractable from the message, process returns analyze_meal
\* without calling the classifier and hands the analyzer the request
\* rewritten from I and G instead of the raw message.
C2_QuantityRewrites ==
    Routed =>
        \A item \in AnchorItems :
            (Awaiting(item) /\ _extract_grams(turn.user_input) # None) =>
                RewrittenFor(item, _extract_grams(turn.user_input)[1])

\* C2 amended: the same when the extracted quantity G is greater than zero.
C2_PositiveQuantityRewrites ==
    Routed =>
        \A item \in AnchorItems :
            (Awaiting(item) /\ _extract_grams(turn.user_input) # None /\ _extract_grams(turn.user_input)[1] > 0) =>
                RewrittenFor(item, _extract_grams(turn.user_input)[1])

\* "150g" answers the open clarification about eggs
C2_Witness ==
    /\ Routed
    /\ Awaiting(ITEM_EGGS)
    /\ turn.user_input = T_GRAMS
    /\ state.user_input = <<"e","g","g","s"," ","1","5","0",".","0"," ","g">>
    /\ pc = "analyze_meal"

\* C4: every branch of process appends exactly one user-role message and,
\* when it resolves conversation or clarification itself, exactly one
\* assistant-role message, never more than one of either role.
C4_OneUserOneAssistant ==
    Routed =>
        /\ Cardinality(RowsOfRole(Appended, "user")) = 1
        /\ Cardinality(RowsOfRole(Appended, "assistant")) <= 1
        /\ state.category \in {Some("conversation"), Some("clarification")}
              => Cardinality(RowsOfRole(Appended, "assistant")) = 1
        /\ Len(Appended) = Cardinality(RowsOfRole(Appended, "user")) + Cardinality(RowsOfRole(Appended, "assistant"))

\* a heuristic re-prompt (no classifier) that appended its user and assistant message
C4_Witness ==
    /\ Routed
    /\ turn.classifier = None
    /\ state.category = Some("clarification")
    /\ Len(Appended) = 2
    /\ Appended[1].role = "user"
    /\ Appended[2].role = "assistant"

\* the classifier raised, timed out, replied with malformed output, or named
\* a category outside the fixed set
ClassifierFailed(outcome) ==
    \/ outcome.kind \in {"raise", "timeout", "malformed", "not_object"}
    \/ /\ outcome.kind = "object"
       /\ outcome.category # None
       /\ outcome.category[1] \notin {"analyze_meal", "coaching", "web_search", "recipe_generation",
                                      "conversation", "clarification"}

\* C5: in a turn that reaches the classifier, if the classifier fails or
\* returns a category outside the fixed set, process returns normally with
\* category conversation and a reply.
C5_ClassifierFallback ==
    (Routed /\ turn.classifier # None /\ ClassifierFailed(turn.classifier[1])) =>
        /\ state.category = Some("conversation")
        /\ pc = "in_conversation"
        /\ state.response # None
        /\ state.error = None

\* the classifier answered with the unknown label "dessert"
C5_Witness ==
    /\ Routed
    /\ turn.classifier = Some([kind |-> "object", category |-> Some("dessert")])
    /\ state.category = Some("conversation")

\* C6: whatever the log and the text, a turn with an image attached is
\* resolved to analyze_meal.
C6_ImageWins ==
    (Routed /\ state.image_data # None) => state.category = Some("analyze_meal")

\* the history a request starting now would read
StoredHistory == get_chat_history(chat_history, "1", HISTORY_LIMIT, TRUE)

\* positions of the messages of a role, and of the assistant clarifications
PositionsOfRole(hist, role) == {i \in 1..Len(hist) : hist[i].role = role}

ClarificationPositions(hist) ==
    {i \in PositionsOfRole(hist, "assistant") : hist[i].category = Some("clarification")}

Latest(positions) == CHOOSE i \in positions : \A j \in positions : j <= i

\* C12: when the history is read in insertion order and its most recent
\* assistant message is not tagged clarification, _last_clarification_about
\* returns (None, None, None) and no message is handled by a rule of an open
\* clarification.
C12_OnlyImmediatelyPrecedingTurn ==
    (/\ pc = "idle"
     /\ dbTies = "rowid_desc"
     /\ PositionsOfRole(StoredHistory, "assistant") # {}
     /\ StoredHistory[Latest(PositionsOfRole(StoredHistory, "assistant"))].category # Some("clarification"))
    => /\ _last_clarification_about(StoredHistory) = << None, None, None >>
       /\ \A text \in RouterTexts :
             ProcessBranch(text, StoredHistory) \notin {"open_negative", "open_quantity"}

IdleTurn ==
    \/ ClarificationPositions(TurnHistory) = {}
    \/ DictGet(TurnHistory[Latest(ClarificationPositions(TurnHistory))].metadata[1], "clarifying_about") = None

\* the request went on to classify_and_respond (which answers for an image
\* without sending the classifier request)
FellThrough ==
    IF state.image_data = None THEN turn.classifier # None
    ELSE state.coordinator_response = Some(ImageHtml)

\* C15: in an idle turn with a negative reply, if _find_recent_meal_item
\* finds item I the request returns clarification without the classifier and
\* appends the user message and an assistant message tagged clarification
\* with topic meal_logging and item I that asks for the grams of I; if no
\* item is found the request goes on to the classifier.
C15_IdleNegativeReprompts ==
    (Routed /\ IdleTurn /\ _is_negative_reply(turn.user_input)) =>
        IF _find_recent_meal_item(TurnHistory) # None
        THEN LET item == _find_recent_meal_item(TurnHistory)[1]
             IN /\ state.category = Some("clarification")
                /\ turn.classifier = None
                /\ state.response = Some([reply_html |-> AskGramsHtml(item), items |-> << >>])
                /\ Len(Appended) = 2
                /\ Appended[2].role = "assistant"
                /\ Appended[2].category = Some("clarification")
                /\ Appended[2].content = AskGramsHtml(item)
                /\ json_loads(Appended[2].message_metadata[1]) = ClarificationMetadata(item)
        ELSE FellThrough

\* "no" after "had eggs" that was not answered with a clarification
C15_Witness ==
    /\ Routed
    /\ IdleTurn
    /\ turn.user_input = T_NO
    /\ _find_recent_meal_item(TurnHistory) = Some(ITEM_EGGS)
    /\ turn.classifier = None
    /\ Len(Appended) = 2
    /\ DictGet(json_loads(Appended[2].message_metadata[1]), "clarifying_item") = Some(ITEM_EGGS)

\* C16 as stated: in an idle turn with an extractable quantity G, if
\* _find_recent_meal_item finds item I the request returns analyze_meal
\* without the classifier with the input rewritten from I and G; if no item
\* is found the request goes on to the classifier.
C16_IdleQuantityRewrites ==
    (Routed /\ IdleTurn /\ _extract_grams(turn.user_input) # None) =>
        IF _find_recent_meal_item(TurnHistory) # None
        THEN RewrittenFor(_find_recent_meal_item(TurnHistory)[1], _extract_grams(turn.user_input)[1])
        ELSE FellThrough

\* C16 amended: the same for a quantity G greater than zero; with a quantity
\* of zero, or without a recent item, the request goes on to the classifier.
C16_IdlePositiveQuantityRewrites ==
    (Routed /\ IdleTurn /\ _extract_grams(turn.user_input) # None) =>
        IF _find_recent_meal_item(TurnHistory) # None /\ _extract_grams(turn.user_input)[1] > 0
        THEN RewrittenFor(_find_recent_meal_item(TurnHistory)[1], _extract_grams(turn.user_input)[1])
        ELSE FellThrough

\* "150g" after "had eggs" that was not answered with a clarification
C16_Witness ==
    /\ Routed
    /\ IdleTurn
    /\ turn.user_input = T_GRAMS
    /\ _find_recent_meal_item(TurnHistory) = Some(ITEM_EGGS)
    /\ turn.classifier = None
    /\ state.user_input = <<"e","g","g","s"," ","1","5","0",".","0"," ","g">>
    /\ pc = "analyze_meal"

\* the messages of the last limit rows appended for a user, oldest first
LastAppended(tbl, user_id, limit) ==
    LET own == SelectSeq(tbl, LAMBDA row : row.user_id = user_id)
        k == IF Len(own) < limit THEN Len(own) ELSE limit
    IN [i \in 1..k |-> MessageOfRow(own[Len(own) - k + i])]

\* C17: after every sequence of appends, get_chat_history(session, limit)
\* returns exactly the last limit messages appended for the session (all of
\* them if fewer), in insertion order.
C17_HistoryIsLastAppended ==
    \A user_id \in USERS : \A limit \in 1..MaxLog :
        get_chat_history(chat_history, user_id, limit, TRUE) = LastAppended(chat_history, user_id, limit)

T_ABOUT == <<"a","b","o","u","t"," ","1","5","0","g">>

\* the clarification (meal_logging, eggs) is what a request starting now reconstructs
OpenEggs ==
    /\ _last_clarification_about(StoredHistory)[1] = Some("meal_logging")
    /\ DictGet(_last_clarification_about(StoredHistory)[3][1], "clarifying_item") = Some(ITEM_EGGS)

\* the input handed downstream when "about 150g" arrives now
AboutReply == process(initial_state(T_ABOUT, "1", None), chat_history, NoOutcome, 0).state.user_input

\* a quantity rule resolved the current request
QuantityRuleFired ==
    /\ Routed
    /\ state.category = Some("analyze_meal")
    /\ turn.classifier = None
    /\ state.coordinator_response # Some(ImageHtml)

\* C21 as stated: with the clarification (meal_logging, eggs) open, the reply
\* "about 150g" is rewritten to "eggs 150 g".
C21_RewrittenEggs150g ==
    (pc = "idle" /\ OpenEggs) => AboutReply = <<"e","g","g","s"," ","1","5","0"," ","g">>

\* C21 amended: the rewritten input is the item, one space, the amount as
\* the float is printed (150.0), one space and g; "about 150g" with
\* (meal_logging, eggs) open becomes "eggs 150.0 g".
C21_RewrittenFloatAmount ==
    /\ QuantityRuleFired =>
          LET amount == FloatRepr(_extract_grams(turn.user_input)[1])
          IN  /\ \A item \in AnchorItems :
                    Awaiting(item) => state.user_input = item \o <<" ">> \o amount \o <<" ", "g">>
              /\ IdleTurn => state.user_input =
                    _find_recent_meal_item(TurnHistory)[1] \o <<" ">> \o amount \o <<" ", "g">>
    /\ (pc = "idle" /\ OpenEggs) => AboutReply = <<"e","g","g","s"," ","1","5","0",".","0"," ","g">>

\* "about 150g" would now be rewritten for the open clarification about eggs
C21_Witness ==
    /\ pc = "idle"
    /\ OpenEggs
    /\ AboutReply = <<"e","g","g","s"," ","1","5","0",".","0"," ","g">>

\* workflow.invoke has returned and process_request builds its result
Answered == pc \in {"respond", "END"}

Unfaulted ==
    process(initial_state(turn.user_input, state.user_id, state.image_data), turn.before,
            IF turn.classifier = None THEN NoOutcome ELSE turn.classifier[1], 0)

\* the coordinator's appends of the current request that the store refused,
\* u being what the coordinator does over a healthy store
FailedAppends(u) ==
    IF turn.fault = 2 \/ (turn.fault = 3 /\ Len(u.saved) = 2) THEN 1 ELSE 0

\* the rows a request of the given category appends when every append succeeds
RowsOfTurn(category) ==
    IF category = "analyze_meal" THEN 3
    ELSE IF category = "coaching" THEN 1
    ELSE 2

\* the coordinator decided as u does and the log is u's without the refused row
SameTurnWithoutRow(u) ==
    /\ state.category = u.state.category
    /\ state.category # None
    /\ state.response = u.state.response
    /\ state.coordinator_response = u.state.coordinator_response
    /\ state.user_input = u.state.user_input
    /\ Truthy(state.response) \/ Truthy(state.coordinator_response)
    /\ Len(chat_history) = Len(u.table) - FailedAppends(u)
    /\ \A i \in 1..Len(chat_history) :
          LET j == IF i > Len(turn.before) /\ turn.fault = 2 THEN i + 1 ELSE i
          IN /\ chat_history[i].role = u.table[j].role
             /\ chat_history[i].content = u.table[j].content
             /\ chat_history[i].category = u.table[j].category
             /\ chat_history[i].message_metadata = u.table[j].message_metadata

\* C23: a failed append is swallowed by save_chat_message: the coordinator
\* still resolves the same category, reply and handed-on input as over a
\* healthy store and only the refused row is missing from the log; a turn
\* whose handler lost an append is still answered with a reply.
C23_FailedAppendKeepsTurn ==
    /\ (Routed /\ turn.fault \in {2, 3}) => With(Unfaulted, LAMBDA u : SameTurnWithoutRow(u))
    /\ (pc = "respond" /\ state.error = None /\ Len(Appended) < RowsOfTurn(state.category[1])) =>
          /\ process_request(state).success
          /\ process_request(state).reply_html # << >>
          /\ process_request(state).category = state.category

\* the append of the user message of a clarification turn failed: the reply
\* is there and only the assistant row reached the log
C23_Witness ==
    /\ Routed
    /\ turn.fault = 2
    /\ state.category = Some("clarification")
    /\ Truthy(state.response)
    /\ Len(Appended) = 1
    /\ Appended[1].role = "assistant"

\* a meal analysis that lost an append and is answered all the same
C23_HandlerWitness ==
    /\ pc = "respond"
    /\ turn.fault = 0
    /\ state.error = None
    /\ state.category = Some("analyze_meal")
    /\ Len(Appended) = 2
    /\ process_request(state).success

\* C28: every completed request, the appends of the coordinator and of the
\* handler it routed to counted together, adds exactly one user-role and
\* exactly one assistant-role message to the log, whatever its category.
C28_OneUserOneAssistantPerTurn ==
    pc = "respond" =>
        /\ Cardinality(RowsOfRole(Appended, "user")) = 1
        /\ Cardinality(RowsOfRole(Appended, "assistant")) = 1

\* the log ends with a clarification of the coordinator that names a topic
\* and an item, appended right after the user message it answers
EndsWithClarification ==
    /\ Len(chat_history) >= 2
    /\ chat_history[Len(chat_history)].role = "assistant"
    /\ chat_history[Len(chat_history)].category = Some("clarification")
    /\ chat_history[Len(chat_history)].message_metadata # None
    /\ {"clarifying_about", "clarifying_item"}
          \subseteq DOMAIN json_loads(chat_history[Len(chat_history)].message_metadata[1])
    /\ chat_history[Len(chat_history) - 1].role = "user"

\* the clarification that closes the log is what the next request reads back
ReadsBackClarification ==
    LET n == Len(chat_history)
        meta == json_loads(chat_history[n].message_metadata[1])
    IN \E got \in {_last_clarification_about(StoredHistory)} :
          /\ got[1] = Some(meta["clarifying_about"])
          /\ got[3] = Some(meta)
          /\ DictGet(got[3][1], "clarifying_item") = Some(meta["clarifying_item"])
          /\ got[2] = Some(chat_history[n - 1].content)

\* C29: when a request ended with the coordinator appending a clarification
\* with topic T and item I and nothing was appended since, the next request
\* reads back topic T, metadata holding item I and, as prior user text, the
\* user message of that request.
C29_ClarificationSurvivesRoundTrip ==
    EndsWithClarification => ReadsBackClarification

\* the same for a store that returns equal timestamps newest row first
C29_SurvivesInInsertionOrder ==
    (dbTies = "rowid_desc" /\ EndsWithClarification) => ReadsBackClarification

\* the classifier was called in the current request and answered clarification
ClassifiedClarification ==
    /\ Routed
    /\ turn.classifier = Some([kind |-> "object", category |-> Some("clarification")])

\* the assistant rows the current request appended
StoredReplies == SelectSeq(Appended, LAMBDA row : row.role = "assistant")

\* one of cues occurs in the lower-cased text
CuePresent(cues, text) ==
    \E i \in 1..Len(cues) : \E p \in 1..Len(text) :
        /\ p + Len(cues[i]) - 1 <= Len(text)
        /\ SubSeq(lower(text), p, p + Len(cues[i]) - 1) = cues[i]

\* the topic of the fixed priority: meal, then recipe, then coaching
PriorityTopic(text) ==
    IF CuePresent(MEAL_CUES, text) THEN Some("meal_logging")
    ELSE IF CuePresent(RECIPE_CUES, text) THEN Some("recipe")
    ELSE IF CuePresent(COACHING_CUES, text) THEN Some("coaching")
    ELSE None

\* C32: when the classifier returns clarification, the one assistant message
\* the coordinator stores carries the topic the fixed priority gives for the
\* current user message (meal_logging, else recipe, else coaching, else no
\* topic), and an anchor item exactly when the topic is meal_logging and an
\* item is extracted from the message.
C32_TopicByPriority ==
    ClassifiedClarification =>
        /\ Len(StoredReplies) = 1
        /\ StoredReplies[1].category = Some("clarification")
        /\ StoredReplies[1].message_metadata # None
        /\ LET meta == json_loads(StoredReplies[1].message_metadata[1])
               item == _extract_item_from_text(turn.user_input)
           IN /\ DictGet(meta, "clarifying_about") = PriorityTopic(turn.user_input)
              /\ DictGet(meta, "clarifying_item") =
                    IF PriorityTopic(turn.user_input) = Some("meal_logging") /\ Truthy(item) THEN item ELSE None

\* the message holds a recipe cue and a meal cue, and the stored
\* clarification has topic meal_logging with the extracted item
C32_Witness ==
    /\ ClassifiedClarification
    /\ turn.user_input = T_COOK_DINNER
    /\ CuePresent(RECIPE_CUES, turn.user_input)
    /\ Len(StoredReplies) = 1
    /\ LET meta == json_loads(StoredReplies[1].message_metadata[1])
       IN /\ DictGet(meta, "clarifying_about") = Some("meal_logging")
          /\ DictGet(meta, "clarifying_item") = Some(T_COOK_DINNER)

\* the most recent clarification of the log, in insertion order, has topic
\* recipe or coaching
OpenOtherClarification(tbl) ==
    /\ LastClarificationRow(tbl) # None
    /\ LastClarificationRow(tbl)[1].message_metadata # None
    /\ DictGet(json_loads(LastClarificationRow(tbl)[1].message_metadata[1]), "clarifying_about")
          \in {Some("recipe"), Some("coaching")}

\* a negative reply and a message holding a quantity
ShortCircuitTexts == {T_NO, T_GRAMS}

\* for a text-only negative reply or quantity the classifier is called and
\* its answer is the category of the turn
DecidedByClassifier(tbl) ==
    \A text \in ShortCircuitTexts : \A outcome \in ClassifierOutcomes :
        \E r \in {process(initial_state(text, "1", None), tbl, outcome, 0)} :
            /\ r.classifier = Some(outcome)
            /\ r.state.category = Some(classify_and_respond(outcome, FALSE)[1])
            /\ r.state.user_input = text

\* C33: when the most recent clarification of the log has topic recipe or
\* coaching, a text-only negative reply or quantity fires none of the
\* short-circuit rules: the classifier is called and decides the category.
C33_OtherTopicReachesClassifier ==
    (pc = "idle" /\ OpenOtherClarification(chat_history)) => DecidedByClassifier(chat_history)

\* the same for a store that returns equal timestamps newest row first
C33_ReachesClassifierInInsertionOrder ==
    (dbTies = "rowid_desc" /\ pc = "idle" /\ OpenOtherClarification(chat_history))
        => DecidedByClassifier(chat_history)

\* a log whose older clarification is about a meal and whose most recent
\* one is about a recipe
C33_MealThenRecipe ==
    /\ pc = "idle"
    /\ dbTies = "rowid_desc"
    /\ OpenOtherClarification(chat_history)
    /\ Len(chat_history) = 4
    /\ chat_history[2].message_metadata # None
    /\ DictGet(json_loads(chat_history[2].message_metadata[1]), "clarifying_about") = Some("meal_logging")

\* the downstream node of a resolved category
NodeFor(category) ==
    IF category \in {Some("conversation"), Some("clarification")} THEN "in_conversation"
    ELSE IF category \in {Some("analyze_meal"), Some("web_search"), Some("recipe_generation"), Some("coaching")}
    THEN category[1]
    ELSE "none"

\* the nodes that have run in the current request: none between requests;
\* the coordinator alone while the node of the resolved category is about
\* to run; the coordinator and then that node once the graph has ended
PipelineShape ==
    /\ pc = "idle" => nodes = << >>
    /\ pc \notin {"idle", "respond"} => (nodes = << "coordinator" >> /\ pc = NodeFor(state.category))
    /\ pc = "respond" => nodes = << "coordinator", NodeFor(state.category) >>

\* C34: in every request the coordinator node runs once and first, then
\* exactly one downstream node runs, the handler of the resolved category
\* or the pass-through node for conversation and clarification, and the
\* request ends: no node runs twice, no other handler runs, and every
\* request that started returns.
C34_FixedPipelineTerminates ==
    /\ []PipelineShape
    /\ (pc # "idle") ~> (pc = "idle")

\* a request resolved to analyze_meal has run the coordinator and the
\* analyzer and has reached the end of the graph
C34_Witness ==
    /\ pc = "respond"
    /\ state.category = Some("analyze_meal")
    /\ nodes = << "coordinator", "analyze_meal" >>

(***************************************************************************)
(* Properties of the fuzzy resolver                                        *)
(***************************************************************************)
Returned == Len(fresult) = 2

\* the composite score, in hundredths, of catalog position i against the query
ScoreAt(i) == _combined(_norm(fname), _norm(fnames[i]))

\* the catalog position whose id the call returned
ReturnedAt(i) == Returned /\ fresult[2] = Some(fids[i])

\* C7: _fuzzy_match returns a catalog id only if the composite score of the
\* returned candidate against the normalized query is at least the caller's
\* cutoff, also when the winner was chosen by the subset rule.
C7_ReturnedMeetsCutoff ==
    \A i \in 1..Len(fnames) : ReturnedAt(i) => ScoreAt(i) >= fcutoff * 100

\* the candidates that pass the pre-filters and whose token set contains the query's
Supersets ==
    {i \in 1..Len(fnames) :
        /\ _norm(fnames[i]) # << >>
        /\ _token_set(fname) \cap _token_set(fnames[i]) # {}
        /\ _token_set(fname) \subseteq _token_set(fnames[i])}

\* C8: whenever some candidate surviving the pre-filters has a token set that
\* contains the query's token set, the call returns the id of a superset
\* candidate whose composite score is the highest among the superset
\* candidates, never a non-superset candidate.
C8_WinnerAmongSupersets ==
    (Returned /\ Supersets # {}) =>
        \E i \in Supersets : /\ ReturnedAt(i)
                             /\ \A j \in Supersets : ScoreAt(j) <= ScoreAt(i)

\* a call in which a surviving non-superset candidate outscores the only
\* superset candidate, and the superset candidate's id is returned
C8_Witness ==
    /\ Returned
    /\ Len(fnames) = 2
    /\ \E i \in Supersets, k \in (1..Len(fnames)) \ Supersets :
          /\ _token_set(fname) \cap _token_set(fnames[k]) # {}
          /\ ScoreAt(k) > ScoreAt(i)
          /\ ReturnedAt(i)

\* C10: if _fuzzy_match returns the id of a candidate whose normalized name
\* has at most 3 characters, that candidate's composite score is at least 98,
\* whichever branch selected it.
C10_ShortWinnerNearPerfect ==
    \A i \in 1..Len(fnames) : (ReturnedAt(i) /\ Len(_norm(fnames[i])) <= 3) => ScoreAt(i) >= 9800

\* catalog position i shares a normalized token with the query
SharesToken(i) == _token_set(fname) \cap _token_set(fnames[i]) # {}

\* C11: _fuzzy_match never returns the id of a catalog entry whose normalized
\* token set has no token in common with the query's, and returns none when
\* no catalog entry shares a token with the query.
C11_ReturnedSharesToken ==
    /\ \A i \in 1..Len(fnames) : ReturnedAt(i) => SharesToken(i)
    /\ (Returned /\ \A i \in 1..Len(fnames) : ~SharesToken(i)) => fresult[2] = None

\* an entry without a common token outscores the entry that is returned
C11_Witness ==
    \E i, k \in 1..Len(fnames) :
        /\ ReturnedAt(i)
        /\ ~SharesToken(k)
        /\ ScoreAt(k) > ScoreAt(i)

(***************************************************************************)
(* Properties of ingredient creation                                       *)
(***************************************************************************)
RowsNamed(n) == {i \in 1..Len(ingredient) : lower(ingredient[i].name) = lower(n)}

HasCard(r, n) == \E k \in 1..Len(req[r].new_cards) : req[r].new_cards[k] = [key |-> n, value |-> "card"]

\* C3: when two requests have run create_new_ingredients for the same unknown
\* name, under every interleaving the catalog ends with exactly one row for
\* that name (case-insensitively) and both requests map the name to that
\* row's id.
C3_OneRowPerName ==
    (\A r \in Requests : req[r].pc = "returned") =>
        \A n \in UnknownNames :
            (\A r \in Requests : HasCard(r, n)) =>
                /\ Cardinality(RowsNamed(n)) = 1
                /\ \A r \in Requests : \A i \in RowsNamed(n) :
                      /\ DictHas(req[r].created_ids, _norm(n))
                      /\ DictAt(req[r].created_ids, _norm(n)) = ingredient[i].id

\* C9: if the re-check query, the insert/flush or the commit of a batch fails,
\* the catalog holds none of the rows the batch inserted, the session holds
\* none either, and the call raises instead of returning an id map.
C9_RollbackAndRaise ==
    \A r \in Requests :
        req[r].pc = "raised" =>
            /\ \A i \in 1..Len(ingredient) : ingredient[i].by # r
            /\ req[r].pending = << >>
            /\ req[r].created_ids = << >>

\* a batch that had flushed a row when it failed, beside a committed one
C9_Witness ==
    \E r \in Requests :
        /\ req[r].pc = "raised"
        /\ req[r].flushed >= 1
        /\ ingredient # << >>

(***************************************************************************)
(* Properties of the ingredient resolution of one analyze request          *)
(***************************************************************************)
\* C14: from a catalog that is unique case-insensitively, after any sequence
\* of analyze requests that run one after the other, no two rows of the
\* catalog have names that are equal case-insensitively.
C14_CaseInsensitivelyUnique ==
    \A i, j \in 1..Len(ingredient) :
        i # j => lower(ingredient[i].name) # lower(ingredient[j].name)

\* C18: within one analyze request create_nutrition_card is called at most
\* once per distinct unknown name.
C18_OneGeneratorCallPerName ==
    \A n \in ItemNames :
        Cardinality({k \in 1..Len(analysis.generated) : analysis.generated[k] = n}) <= 1

\* every generator call of the request for name n came back with nothing
Dropped(n) ==
    /\ \E k \in 1..Len(analysis.unknown_names) : analysis.unknown_names[k] = n
    /\ \A k \in 1..Len(analysis.unknown_names) :
          analysis.unknown_names[k] = n => analysis.outcomes[k] = "none"

\* the card kept for name m (the last one generated) has four parseable values
Validated(m) ==
    LET calls == {k \in 1..Len(analysis.unknown_names) :
                     analysis.unknown_names[k] = m /\ analysis.outcomes[k] # "none"}
    IN  calls # {} /\ analysis.outcomes[Latest(calls)] = "card"

\* the rows the request added to the catalog
RowsAdded == SubSeq(ingredient, Len(analysis.before) + 1, Len(ingredient))

\* the ids the response gives the items named n
ReturnedIds(n) ==
    {analysis.out[i].ingredient_id : i \in {k \in 1..Len(analysis.items) : analysis.items[k].ingredient_name = n}}

\* what C19 says apart from the id of the dropped item: the request ends
\* without error, no row is created for a dropped name, and with a name
\* dropped every validated name has its row in the catalog
DropsOnlyTheName ==
    /\ analysis.pc = "done"
    /\ \A n \in ItemNames : Dropped(n) => \A i \in 1..Len(RowsAdded) : RowsAdded[i].name # n
    /\ (\E n \in ItemNames : Dropped(n)) =>
          \A m \in ItemNames : Validated(m) =>
              \E i \in 1..Len(ingredient) : lower(ingredient[i].name) = lower(m)

Unknown(n) == \E k \in 1..Len(analysis.unknown_names) : analysis.unknown_names[k] = n

\* C30: every item whose name was unknown and got a valid profile is
\* returned with the id of the catalog row whose name equals the item's own
\* name case-insensitively, also when another unknown name of the request
\* has the same normalized key.
C30_ReturnedWithOwnRow ==
    analysis.pc = "done" =>
        \A n \in ItemNames : (Unknown(n) /\ Validated(n)) =>
            \A id \in ReturnedIds(n) :
                /\ id # None
                /\ \E i \in 1..Len(ingredient) :
                      ingredient[i].id = id[1] /\ lower(ingredient[i].name) = lower(n)

\* the ids of the committed catalog rows
CommittedIds == {ingredient[i].id : i \in 1..Len(ingredient)}

\* every returned item has a non-empty name
C31_NamesNonEmpty ==
    analysis.pc = "done" =>
        \A i \in 1..Len(analysis.out) : analysis.out[i].ingredient_name # << >>

\* every returned ingredient id is the id of a committed catalog row
C31_IdsCommitted ==
    analysis.pc = "done" =>
        \A i \in 1..Len(analysis.out) :
            analysis.out[i].ingredient_id # None => analysis.out[i].ingredient_id[1] \in CommittedIds

\* C31: every item returned by a successful analyze request has grams
\* greater than 0 and a non-empty name, and every ingredient id it carries
\* is the id of a row of the committed catalog, whether it came from the
\* fuzzy match, from creation or from the exact-name query.
C31_ReturnedItemsValid ==
    analysis.pc = "done" =>
        \A i \in 1..Len(analysis.out) :
            /\ FloatGt(analysis.out[i].grams, Finite(0))
            /\ analysis.out[i].ingredient_name # << >>
            /\ analysis.out[i].ingredient_id # None => analysis.out[i].ingredient_id[1] \in CommittedIds

\* the same for the items whose grams are a number
C31_ReturnedNumbersValid ==
    analysis.pc = "done" =>
        \A i \in 1..Len(analysis.out) :
            /\ ~analysis.out[i].grams.nan => FloatGt(analysis.out[i].grams, Finite(0))
            /\ analysis.out[i].ingredient_name # << >>
            /\ analysis.out[i].ingredient_id # None => analysis.out[i].ingredient_id[1] \in CommittedIds

\* a request for a stop-word name whose generator call failed gets the id
\* of the row of that name from the exact-name query
C31_FallbackReached ==
    /\ analysis.pc = "done"
    /\ analysis.created_ids = << >>
    /\ \E i \in 1..Len(analysis.out) :
          /\ analysis.items[i].ingredient_id = None
          /\ analysis.out[i].ingredient_id # None

(***************************************************************************)
(* Properties of the quantity extractor                                    *)
(***************************************************************************)
\* the text as the search sees it (line 183)
Searched == lower(strip(gtext))

\* a numeral starts at 0-based position i and is followed by optional
\* blanks and the unit g or grams as a whole word; the value is the end of
\* the numeral, -1 when there is none
UnitNumeralEnd(s, i) ==
    LET d == DigitRun(s, i)
        f == IF OccursAt(s, <<".">>, i + d) THEN DigitRun(s, i + d + 1) ELSE 0
        e == IF f > 0 THEN i + d + 1 + f ELSE i + d
        unit_at(p) == \E u \in { <<"g">>, <<"g","r","a","m","s">> } :
                          OccursAt(s, u, p) /\ WordBoundary(s, p + Len(u))
    IN  IF d > 0 /\ (i = 0 \/ ~IsDigit(s[i])) /\ unit_at(e + SpaceRun(s, e)) THEN e ELSE -1

UnitNumeralStarts(s) == {i \in 0..Len(s) : UnitNumeralEnd(s, i) # -1}

Earliest(positions) == CHOOSE i \in positions : \A j \in positions : i <= j

\* C20: _extract_grams returns the numeral of the first numeral-plus-unit
\* pattern of the text when there is one, whatever bare numeral precedes
\* it, and none when the text holds no digit.
C20_FirstNumeralWithUnit ==
    gresult[1] = "returned" =>
        /\ UnitNumeralStarts(Searched) # {} =>
              LET i == Earliest(UnitNumeralStarts(Searched))
              IN  gresult[2] = Some(ParseFloat(Slice(Searched, i, UnitNumeralEnd(Searched, i))))
        /\ (\A k \in 1..Len(gtext) : ~IsDigit(gtext[k])) => gresult[2] = None

\* the catalog positions whose normalized name is the normalized query
ExactPositions == {i \in 1..Len(fnames) : _norm(fnames[i]) = _norm(fname)}

\* C26 (as stated): when some catalog entry's normalized name equals the
\* normalized query, the call returns the id of such an entry, whatever the
\* cutoff.
C26_ExactNameResolved ==
    (Returned /\ ExactPositions # {}) => \E i \in ExactPositions : ReturnedAt(i)

\* C26 (amended): when the normalized query is not empty and some catalog
\* entry's normalized name equals it, the call returns the id of such an
\* entry, whatever the cutoff; an empty normalized query returns none.
C26_NonEmptyExactNameResolved ==
    /\ (Returned /\ ExactPositions # {} /\ _norm(fname) # << >>) => \E i \in ExactPositions : ReturnedAt(i)
    /\ (Returned /\ _norm(fname) = << >>) => fresult[2] = None

\* cutoff 100, a superset candidate scoring 99.55 listed before the entry
\* with the query's normalized name, whose id is returned
C26_Witness ==
    /\ Returned
    /\ fcutoff = 100
    /\ fname = X_AB
    /\ fnames = << N_ABC, N_AB >>
    /\ ScoreAt(1) = 9955
    /\ ReturnedAt(2)

(***************************************************************************)
(* Properties of the helpers called on their own                           *)
(***************************************************************************)
Called(fn) == cfn = fn /\ cret[1] = "returned"

\* the message is one _find_recent_meal_item stops at: a user message that
\* is not a bare greeting and mentions a consumption verb or a meal time
Qualifies(msg) ==
    /\ msg.role = "user"
    /\ strip(lower(msg.content)) \notin GREETINGS
    /\ AnyIn(MEAL_MENTION_KEYS, lower(msg.content))

QualifyingPositions(hist) == {i \in 1..Len(hist) : Qualifies(hist[i])}

\* C24: _find_recent_meal_item returns what _extract_item_from_text gives
\* for the most recent qualifying user message of the log, none when it
\* gives nothing or no message qualifies; no older message decides.
C24_FirstQualifyingAlone ==
    Called("_find_recent_meal_item") =>
        cret[2] = IF QualifyingPositions(chist) = {} THEN None
                  ELSE _extract_item_from_text(chist[Latest(QualifyingPositions(chist))].content)

\* C25: _norm returns for every text, normalizing its own result changes
\* nothing, and the empty (or missing) text gives the empty text.
C25_NormIdempotentTotal ==
    Called("_norm") =>
        /\ _norm(cret[2]) = cret[2]
        /\ ctext = << >> => cret[2] = << >>

\* a name whose case, punctuation, blanks and stop words _norm changed
C25_Witness ==
    /\ Called("_norm")
    /\ ctext = N_LOW_FAT
    /\ cret[2] = <<"l","o","w"," ","f","a","t"," ","m","i","l","k">>

\* the texts that are one of the seven phrases in any letter case between blanks
ExactNegativeTexts ==
    { pre \o body \o post : pre \in ReplyPads, body \in ReplyPhrases, post \in ReplyPads }

\* C27: _is_negative_reply is true exactly for a text that, trimmed and
\* lower-cased, is one of the seven phrases; "no thanks" is not one, and
\* process takes neither negative-reply transition on it.
C27_ExactPhrasesOnly ==
    /\ Called("_is_negative_reply") => (cret[2] <=> ctext \in ExactNegativeTexts)
    /\ (Called("process") /\ ctext = T_NO_THANKS) => cret[2] \notin {"open_negative", "idle_negative"}

\* "no thanks" answering an open meal clarification goes to the classifier
C27_Witness ==
    /\ Called("process")
    /\ ctext = T_NO_THANKS
    /\ _last_clarification_about(chist)[1] = Some("meal_logging")
    /\ ProcessBranch(T_NO, chist) = "open_negative"
    /\ cret[2] = "classify"

=============================================================================
